---- MODULE Spec2Model ----
(***************************************************************************)
(* The query execution core of src/src/execution/execute.ts as a state     *)
(* machine.                                                                *)
(*                                                                         *)
(* One step of the machine is one task of the host's event loop: a call of *)
(* execute / executeSync, or the settlement of one promise that the host   *)
(* owns (a resolver's promise, one pull of an async iterator) or of one    *)
(* payload promise of the dispatcher, together with every continuation     *)
(* that this settlement runs (the microtasks are drained before the next   *)
(* task starts).  Synchronous code is computed by recursive operators that *)
(* thread the mutable part of the execution (the record S) through the     *)
(* calls, in the order in which the code performs them.                    *)
(*                                                                         *)
(* The requests are drawn from a small family of documents over one        *)
(* schema:                                                                 *)
(*     type Query / Mutation { p: P | U  x: String  l: [Int]  d: String }  *)
(*     type P { a: String  b: String }     type Q { a: String }            *)
(*     type R { a: String }                union U = P | Q                 *)
(* with the documents                                                      *)
(*     { p { a b } x }        and        { x l }                           *)
(* each with or without a root-level  ... @defer(label: "D") { d },        *)
(* where p, b, x and the elements of l may be declared NonNull, every      *)
(* resolver is synchronous or asynchronous and succeeds, yields null or    *)
(* fails, and l is backed by an array or by an async iterator.             *)
(***************************************************************************)
EXTENDS Integers, Sequences, FiniteSets, TLC

VARIABLES
    args,        \* ExecutionArgs: document, operationName, schema, resolvers
    entry,       \* which entry point was called: "none", "execute", "executeSync"
    ret,         \* what execute returned to its caller
    syncResult,  \* outcome of executeSync: "none", "returned", "threw"
    prom,        \* the promise execute returned (result.then(...))
    opResult,    \* the outcome of the root call executeOperation
    errors,      \* exeContext.errors
    invoked,     \* the resolvers invoked so far, in invocation order
    fld,         \* per field: the state of the value / promise executeField returned
    agg,         \* per selection set: the promise promiseForObject returned
    serial,      \* the promiseReduce chain of executeFieldsSerially
    iter,        \* the async iterator behind l and the loop of completeAsyncIteratorValue
    dispatcher,  \* exeContext.dispatcher
    consumer,    \* the caller's next() calls on the async iterable and their results
    subPatchErrors, \* the list collectAndExecuteSubfields made for the sub-patch it starts
    typing,      \* the promise of a runtime type or of isTypeOf that p's completion awaits
    run          \* the caller's record of its executions, kept when it executes twice

vars == << args, entry, ret, syncResult, prom, opResult, errors, invoked,
           fld, agg, serial, iter, dispatcher, consumer, subPatchErrors,
           typing, run >>

-----------------------------------------------------------------------------
(* Bounds *)

\* The longest list source (array or async iterator) a resolver yields.
MaxItems == 2

\* The most next() calls the consumer leaves unanswered at a time.
MaxPending == 2

-----------------------------------------------------------------------------
(* Values *)

Null == [t |-> "null"]
Leaf(v) == [t |-> "leaf", v |-> v]
ListV(items) == [t |-> "list", items |-> items]
ObjV(kv) == [t |-> "obj", kv |-> kv]
\* The array completeAsyncIteratorValue resolves with: the response holds the
\* array itself (iter.completedResults), not a copy of it.
ListRef == [t |-> "listref"]
\* A promise held in the results object of executeFields.
PromiseOf(n) == [t |-> "promise", of |-> n]

\* Raw values, as resolvers yield them.
RawNull == [t |-> "null"]
RawUndefined == [t |-> "undefined"]
RawLeaf(v) == [t |-> "raw", v |-> v]
RawSource(name) == [t |-> "source", of |-> name]
RawArray(items) == [t |-> "array", items |-> items]
RawAsyncIterable == [t |-> "asyncIterable"]
RawErrorInstance(e) == [t |-> "error", e |-> e]

\* Results of a synchronous call: a value, an exception, a promise, undefined.
RVal(v) == [k |-> "val", v |-> v]
RThrow(e) == [k |-> "throw", e |-> e]
RProm(of) == [k |-> "promise", of |-> of]
RUndef == [k |-> "undefined"]
O(S, r) == [S |-> S, r |-> r]

\* Errors.  path is the linearized path once the error is located.
Error(message, src) ==
    [message |-> message, src |-> src, path |-> <<>>, located |-> FALSE,
     nodes |-> "none"]

\* new GraphQLError(message, nodes): an error that carries AST nodes, from
\* which its locations are read, and no path.
GraphQLError(message, nodes) == [Error(message, nodes) EXCEPT !.nodes = nodes]

NoValue == [t |-> "none"]
NoError == [message |-> "none", src |-> "none", path |-> <<>>, located |-> FALSE,
            nodes |-> "none"]

-----------------------------------------------------------------------------
(* Types of the schema *)

NonNull(T) == [kind |-> "NonNull", ofType |-> T]
ListOf(T) == [kind |-> "List", ofType |-> T]
Scalar(name) == [kind |-> "Leaf", name |-> name]
ObjectType(name) == [kind |-> "Object", name |-> name]
AbstractType(name) == [kind |-> "Abstract", name |-> name]

isNonNullType(T) == T.kind = "NonNull"
isListType(T) == T.kind = "List"
isLeafType(T) == T.kind = "Leaf"
isObjectType(T) == T.kind = "Object"
isAbstractType(T) == T.kind = "Abstract"

\* The Object types of the schema.
ObjectTypeNames == {"P", "Q", "R"}

Nodes == {"p", "a", "b", "x", "l", "d"}
Aggs == {"root", "p", "patch", "sub"}

\* The selection set a field is executed in.
AggOf(n) == CASE n = "b" /\ args.subDefer -> "sub"
              [] n \in {"a", "b"} -> "p"
              [] n = "d" -> "patch"
              [] OTHER -> "root"

Wrap(n, T) == IF args.nonNull[n] THEN NonNull(T) ELSE T

\* fieldDef.type of the field's definition.
FieldType(n) ==
    CASE n = "p" -> Wrap(n, IF args.abstract THEN AbstractType("U") ELSE ObjectType("P"))
      [] n = "l" -> Wrap(n, ListOf(IF args.itemNonNull
                                   THEN NonNull(Scalar("Int"))
                                   ELSE Scalar("Int")))
      [] OTHER -> Wrap(n, Scalar("String"))

\* What the resolver of a field yields when it succeeds.
ItemRaw(it) == CASE it = "ok" -> RawLeaf("i")
                 [] it = "null" -> RawNull
                 [] it = "bad" -> RawLeaf("bad")
                 [] OTHER -> RawErrorInstance(Error("item failed", "l"))

ResolvedValue(n) ==
    CASE n = "p" -> RawSource("P")
      [] n = "l" -> IF args.source = "array"
                    THEN RawArray([i \in 1..Len(args.items) |-> ItemRaw(args.items[i])])
                    ELSE RawAsyncIterable
      [] OTHER -> RawLeaf(n)

\* What the resolver of a field returns when it returns no promise and does
\* not throw: its value, null, undefined, an Error instance, or a value the
\* serialize of its scalar maps to null or to undefined.
ReturnedValue(n) ==
    CASE args.resolve[n] = "null" -> RawNull
      [] args.resolve[n] = "undefined" -> RawUndefined
      [] args.resolve[n] = "error" -> RawErrorInstance(Error("resolver returned an error", n))
      [] args.resolve[n] \in {"toNull", "toUndefined"} -> RawLeaf(args.resolve[n])
      [] OTHER -> ResolvedValue(n)

IsAsync(b) == b \in {"promiseValue", "promiseNull", "promiseReject"}

\* schema.getType(name), schema.getPossibleTypes(U) and schema.isSubType(U, T).
getType(name) ==
    CASE name \in {"P", "Q", "R"} -> ObjectType(name)
      [] name = "U" -> AbstractType(name)
      [] name \in {"String", "Int"} -> Scalar(name)
      [] OTHER -> [kind |-> "undefined"]

getPossibleTypes(abstractType) == << "P", "Q" >>

isSubType(abstractType, maybeSubType) ==
    \E i \in DOMAIN getPossibleTypes(abstractType) :
        getPossibleTypes(abstractType)[i] = maybeSubType.name

\* What a type resolver can return for the runtime type: a string, undefined,
\* a number, or (as releases before 16 allowed) the GraphQLObjectType itself.
RuntimeName(name) == [t |-> "string", v |-> name]
NoRuntimeType == [t |-> "none", v |-> "none"]
RuntimeUndefined == [t |-> "undefined", v |-> "none"]
RuntimeNumber == [t |-> "number", v |-> "none"]
RuntimeObjectType == [t |-> "objectType", v |-> "P"]

-----------------------------------------------------------------------------
(* Path: a linked list of response keys, linearized by pathToArray *)

NoPath == <<>>

addPath(prev, key) == << prev, key >>

RECURSIVE pathToArray(_)
pathToArray(path) ==
    IF path = NoPath THEN <<>>
    ELSE Append(pathToArray(path[1]), path[2])

\* The key of a list index.
IndexKey(index) == ToString(index)

\* locatedError keeps an error that already carries a path and otherwise
\* attaches the field's linearized path.
locatedError(rawError, n, path) ==
    IF rawError.located THEN rawError
    ELSE [rawError EXCEPT !.path = path, !.located = TRUE,
                          !.nodes = IF rawError.nodes = "none" THEN n ELSE @]

-----------------------------------------------------------------------------
(* The request: document, operationName, variables *)

NoName == "<null>"

\* The label argument of a @defer or @stream directive of the document, when
\* the directive carries one.
LabelOf(label) == IF args.labelled THEN label ELSE NoName
\* No @stream directive on the list field (otherwise: its initialCount).
NoStream == -1
Anonymous == "<undefined>"
Undefined == [kind |-> "undefined"]

OperationDefinition(operation, name) ==
    [kind |-> "OperationDefinition", operation |-> operation, name |-> name]
FragmentDefinition(name) ==
    [kind |-> "FragmentDefinition", operation |-> "none", name |-> name]

\* A faulty selection that misses the check for several operations and keeps
\* the last one: C8 does not hold of it.
RECURSIVE selectLastOperation(_, _, _, _)
selectLastOperation(definitions, i, operationName, operation) ==
    IF i > Len(definitions)
    THEN [ok |-> TRUE, operation |-> operation, errors |-> <<>>]
    ELSE IF /\ definitions[i].kind = "OperationDefinition"
            /\ operationName \in {NoName, definitions[i].name}
    THEN selectLastOperation(definitions, i + 1, operationName, definitions[i])
    ELSE selectLastOperation(definitions, i + 1, operationName, operation)

\* The loop over document.definitions of buildExecutionContext: the operation
\* it selects, or the request error it returns.
RECURSIVE selectOperation(_, _, _, _)
selectOperation(definitions, i, operationName, operation) ==
    IF i > Len(definitions)
    THEN [ok |-> TRUE, operation |-> operation, errors |-> <<>>]
    ELSE LET definition == definitions[i] IN
         IF definition.kind = "OperationDefinition"
         THEN IF operationName = NoName
              THEN IF operation # Undefined
                   THEN [ok |-> FALSE, operation |-> Undefined,
                         errors |-> << Error("Must provide operation name if query contains multiple operations.", "request") >>]
                   ELSE selectOperation(definitions, i + 1, operationName, definition)
              ELSE IF definition.name = operationName
                   THEN selectOperation(definitions, i + 1, operationName, definition)
                   ELSE selectOperation(definitions, i + 1, operationName, operation)
         ELSE selectOperation(definitions, i + 1, operationName, operation)

\* getVariableValues: the coercion errors of the raw variables, if any.
getVariableValues(a) ==
    IF a.badVariables
    THEN [errors |-> << Error("Variable got invalid value.", "request") >>]
    ELSE [errors |-> <<>>]

\* new Dispatcher().  created and tick are bookkeeping: the number of payload
\* promises pushed so far, which gives each its identity, and the number of
\* tasks in which a payload promise settled.
NewDispatcher ==
    [subsequentPayloads |-> <<>>, initialResult |-> NoValue,
     hasReturnedInitialResult |-> FALSE, created |-> 0, tick |-> 0]

\* The ExecutionContext ([ok |-> TRUE, operation, dispatcher, errors]: each
\* call builds its own dispatcher and errors list) or the list of request
\* errors ([ok |-> FALSE, errors]).
buildExecutionContext(a) ==
    LET found == selectOperation(a.document, 1, a.operationName, Undefined) IN
    IF ~found.ok THEN found
    ELSE IF found.operation = Undefined
    THEN IF a.operationName # NoName
         THEN [ok |-> FALSE, operation |-> Undefined,
               errors |-> << Error("Unknown operation named.", "request") >>]
         ELSE [ok |-> FALSE, operation |-> Undefined,
               errors |-> << Error("Must provide an operation.", "request") >>]
    ELSE LET coercedVariableValues == getVariableValues(a) IN
         IF Len(coercedVariableValues.errors) > 0
         THEN [ok |-> FALSE, operation |-> Undefined,
               errors |-> coercedVariableValues.errors]
         ELSE [ok |-> TRUE, operation |-> found.operation,
               dispatcher |-> NewDispatcher, errors |-> <<>>]

\* schema.getRootType(operation.operation)
getRootType(operation) ==
    IF operation = "mutation" /\ ~args.mutationType THEN Undefined
    ELSE ObjectType(IF operation = "mutation" THEN "Mutation" ELSE "Query")

\* collectFields on the root type: the grouped fields in collection order and
\* the patches of the @defer fragments.
collectFields(operation) ==
    [fields |-> args.selection,
     patches |-> IF args.defer THEN << [label |-> LabelOf("D"), fields |-> << "d" >>] >>
                 ELSE <<>>]

\* collectSubfields of an object type for a field's nodes.
collectSubfields(returnType, n) ==
    CASE returnType.name = "P" /\ args.subDefer ->
           [fields |-> << "a" >>, patches |-> << [label |-> LabelOf("E"), fields |-> << "b" >>] >>]
      [] returnType.name = "P" -> [fields |-> << "a", "b" >>, patches |-> <<>>]
      [] returnType.name = "Q" -> [fields |-> << "a" >>, patches |-> <<>>]
      [] OTHER -> [fields |-> <<>>, patches |-> <<>>]

-----------------------------------------------------------------------------
(* Response shapes *)

\* A faulty response that always carries errors: C28 does not hold of it.
buildResponseFull(data, errs) == [errors |-> errs, data |-> data]

\* buildResponse: {data} when no error was accumulated, {errors, data} otherwise.
buildResponse(data, errs) ==
    IF Len(errs) = 0 THEN [data |-> data]
    ELSE [errors |-> errs, data |-> data]

\* A faulty patch that always carries label and errors: C27 does not hold of
\* it.
createPatchResultFull(data, label, path, errs) ==
    [data |-> data, path |-> IF path = NoPath THEN <<>> ELSE pathToArray(path),
     label |-> label, errors |-> errs]

\* createPatchResult: label and errors are left out when absent or empty.
createPatchResult(data, label, path, errs) ==
    LET arr == IF path = NoPath THEN <<>> ELSE pathToArray(path) IN
    IF label # NoName
    THEN IF Len(errs) > 0
         THEN [data |-> data, path |-> arr, label |-> label, errors |-> errs]
         ELSE [data |-> data, path |-> arr, label |-> label]
    ELSE IF Len(errs) > 0
         THEN [data |-> data, path |-> arr, errors |-> errs]
         ELSE [data |-> data, path |-> arr]

-----------------------------------------------------------------------------
(* Field errors *)

\* errors.push(error) on the list a completion frame was given: 0 is
\* exeContext.errors, k > 0 the list allocated for the k-th payload the
\* dispatcher was given, which is subPatchErrors as long as the dispatcher has
\* not been given that payload.
PushError(S, errs, error) ==
    IF errs = 0 THEN [S EXCEPT !.errors = Append(@, error)]
    ELSE IF errs > S.dispatcher.created
    THEN [S EXCEPT !.subPatchErrors = Append(@, error)]
    ELSE LET q == S.dispatcher.subsequentPayloads IN
         [S EXCEPT !.dispatcher.subsequentPayloads =
             [k \in DOMAIN q |->
                 IF q[k].id = errs THEN [q[k] EXCEPT !.errors = Append(@, error)]
                 ELSE q[k]]]

\* A faulty handler that never lets an error bubble: C5 does not hold of it.
handleFieldErrorNoBubble(S, error, returnType, errs) ==
    O(PushError(S, errs, error), RVal(Null))

\* A faulty handler that logs every error in exeContext.errors, whichever list
\* it was given: C19 does not hold of it.
handleFieldErrorMain(S, error, returnType, errs) ==
    IF isNonNullType(returnType) THEN O(S, RThrow(error))
    ELSE O(PushError(S, 0, error), RVal(Null))

handleFieldError(S, error, returnType, errs) ==
    IF isNonNullType(returnType) THEN O(S, RThrow(error))
    ELSE O(PushError(S, errs, error), RVal(Null))

-----------------------------------------------------------------------------
(* Completion *)

\* returnType.serialize(result): the serialized value, or a TypeError for a
\* value the type cannot represent.  The serialize of a custom scalar may
\* return null or undefined: the raw values "toNull" and "toUndefined" are
\* those it does so for.
serialize(returnType, result) ==
    CASE result.t = "raw" /\ result.v = "toNull" -> RVal(Null)
      [] result.t = "raw" /\ result.v = "toUndefined" -> RUndef
      [] result.t = "raw" /\ result.v # "bad" -> RVal(Leaf(result.v))
      [] OTHER -> RThrow(Error("cannot represent value", returnType.name))

\* A faulty check that lets whatever serialize returned through: C26 does not
\* hold of it.
completeLeafUnchecked(serializedResult) ==
    IF serializedResult.k = "undefined" THEN RVal(Null) ELSE serializedResult

\* The check of completeLeafValue on what serialize returned.
completeLeafSerialized(serializedResult) ==
    IF \/ serializedResult.k = "undefined"
       \/ serializedResult.k = "val" /\ serializedResult.v = Null
    THEN RThrow(Error("Expected serialize to return non-nullable value", "leaf"))
    ELSE serializedResult

completeLeafValue(returnType, result) ==
    completeLeafSerialized(serialize(returnType, result))

\* parentType.getFields(): the names of the fields each object type of the
\* schema declares.
getFields(parentType) ==
    CASE parentType \in {"Query", "Mutation"} -> {"p", "x", "l", "d"}
      [] parentType = "P" -> {"a", "b"}
      [] OTHER -> {"a"}

\* The definitions of the three introspection fields.
SchemaMetaFieldDef == [name |-> "__schema", type |-> NonNull(ObjectType("__Schema"))]
TypeMetaFieldDef == [name |-> "__type", type |-> ObjectType("__Type")]
TypeNameMetaFieldDef == [name |-> "__typename", type |-> NonNull(Scalar("String"))]

\* A faulty lookup without the special cases of the introspection fields: C39
\* does not hold of it.
getFieldDefDeclared(parentType, fieldName) ==
    IF fieldName \in getFields(parentType)
    THEN [name |-> fieldName, type |-> FieldType(fieldName)]
    ELSE Undefined

\* schema.getQueryType() is the type Query.
getFieldDef(parentType, fieldName) ==
    IF fieldName = SchemaMetaFieldDef.name /\ parentType = "Query"
    THEN SchemaMetaFieldDef
    ELSE IF fieldName = TypeMetaFieldDef.name /\ parentType = "Query"
    THEN TypeMetaFieldDef
    ELSE IF fieldName = TypeNameMetaFieldDef.name
    THEN TypeNameMetaFieldDef
    ELSE IF fieldName \in getFields(parentType)
    THEN [name |-> fieldName, type |-> FieldType(fieldName)]
    ELSE Undefined

\* this._subsequentPayloads.push(promise): the promise gets its identity (the
\* number of promises pushed so far) and is pending.
pushPayload(S, payload) ==
    [S EXCEPT !.dispatcher.subsequentPayloads =
                  Append(@, [payload EXCEPT !.id = S.dispatcher.created + 1]),
              !.dispatcher.created = @ + 1]

\* A payload promise as it is pushed.  src is what the promise waits for:
\* data in hand ("data"), the promise of a selection set ("agg"), a list
\* element to complete ("item"), a pull of the async iterator ("pull").
Payload(kind, src, n, itemType, label, path, errs) ==
    [id |-> 0, kind |-> kind, src |-> src, n |-> n, itemType |-> itemType,
     label |-> label, path |-> path, errors |-> errs,
     st |-> "pending", result |-> NoValue, tick |-> 0]

\* Dispatcher.addFields: the payload promise is pending until its own
\* continuation runs.
addFields(S, promiseOrData, errs, label, path) ==
    pushPayload(S, Payload("fields",
                           IF promiseOrData.k = "val"
                           THEN [k |-> "data", v |-> promiseOrData.v, g |-> "none"]
                           ELSE [k |-> "agg", v |-> NoValue, g |-> promiseOrData.of],
                           "none", Scalar("none"), label, path, errs))

\* Dispatcher.addValue: the element is completed by the continuations of the
\* payload promise, against a list of errors of its own.
addValue(S, path, promiseOrData, n, itemType, label) ==
    pushPayload(S, Payload("value",
                           [k |-> "item", v |-> promiseOrData, g |-> "none"],
                           n, itemType, label, path, <<>>))

\* getStreamValues: the arguments of @stream on the field, if it carries one.
getStreamValues(n) ==
    IF n = "l" /\ args.stream >= 0
    THEN [initialCount |-> args.stream, label |-> LabelOf("S")]
    ELSE Undefined

\* stream && typeof stream.initialCount === 'number' && index >= stream.initialCount
streamFrom(stream, index) ==
    stream # Undefined /\ index >= stream.initialCount

\* Dispatcher.addAsyncIteratorValue, its inner next(index): a payload promise
\* is pushed that waits for the pull it issues.
addAsyncIteratorValue(S, index, n, itemType, path, label) ==
    [pushPayload(S, Payload("asyncIteratorValue",
                            [k |-> "pull", v |-> NoValue, g |-> "none"],
                            n, itemType, label, addPath(path, IndexKey(index)), <<>>))
        EXCEPT !.iter.pull = "pending", !.iter.pulls = @ + 1, !.iter.index = index,
               !.iter.mode = "stream", !.iter.payload = S.dispatcher.created + 1]

\* What the last continuation of a payload promise returns: the patch built
\* from the data and from the promise's own list of errors.
patchOf(payload, data) ==
    [value |-> createPatchResult(data, payload.label, payload.path, payload.errors),
     done |-> FALSE]

\* The payload promise with identity id settles: it is fulfilled with a patch
\* ("patch"), fulfilled with the terminal signal ("done") or rejected.
settleById(S, id, how, data) ==
    LET q == S.dispatcher.subsequentPayloads IN
    [S EXCEPT !.dispatcher.subsequentPayloads =
        [k \in DOMAIN q |->
            IF q[k].id # id THEN q[k]
            ELSE CASE how = "patch" ->
                        [q[k] EXCEPT !.st = "fulfilled", !.result = patchOf(q[k], data),
                                     !.tick = S.dispatcher.tick + 1]
                   [] how = "done" ->
                        [q[k] EXCEPT !.st = "fulfilled",
                                     !.result = [value |-> Undefined, done |-> TRUE],
                                     !.tick = S.dispatcher.tick + 1]
                   [] OTHER ->
                        [q[k] EXCEPT !.st = "rejected", !.tick = S.dispatcher.tick + 1]]]

\* After handleFieldError in a continuation of a payload promise: the patch
\* carries null, or the error leaves the continuation and rejects the promise.
patchCaught(h, id) ==
    IF h.r.k = "throw" THEN settleById(h.S, id, "reject", Null)
    ELSE settleById(h.S, id, "patch", Null)

\* After completeValue in a continuation of a payload promise: the patch
\* carries the completed element, or the error is located and handled against
\* the element type and the promise's own list of errors.
patchCompleted(c, id, n, itemType, path) ==
    IF c.r.k = "throw"
    THEN patchCaught(handleFieldError(c.S, locatedError(c.r.e, n, pathToArray(path)),
                                      itemType, id),
                     id)
    ELSE settleById(c.S, id, "patch", c.r.v)

\* A faulty store that puts the newest key first: C7 does not hold of it.
AddResultFirst(results, responseName, result) ==
    << << responseName, result >> >> \o results

\* results[responseName] = result
AddResult(results, responseName, result) ==
    Append(results, << responseName, result >>)

RECURSIVE completeValue(_, _, _, _, _, _)
RECURSIVE completeListItems(_, _, _, _, _, _, _, _)
RECURSIVE completeListRest(_, _, _, _, _, _, _, _)
RECURSIVE executeFieldsFrom(_, _, _, _, _, _, _, _)
RECURSIVE executeFieldsRest(_, _, _, _, _, _, _, _)
RECURSIVE executeField(_, _, _, _)
RECURSIVE executeSubPatchesFrom(_, _, _, _, _, _)

\* next(index, completedResults) of completeAsyncIteratorValue: from
\* initialCount on the dispatcher takes the iterator over and the list in hand
\* is resolved; before that the next element is pulled.
iteratorNext(S, index) ==
    IF streamFrom(getStreamValues(S.iter.n), index)
    THEN [addAsyncIteratorValue(S, index, S.iter.n, S.iter.itemType, S.iter.path,
                                getStreamValues(S.iter.n).label)
             EXCEPT !.iter.queued = TRUE]
    ELSE [S EXCEPT !.iter.pull = "pending", !.iter.pulls = @ + 1, !.iter.index = index]

\* completeAsyncIteratorValue: the executor of the new Promise calls next(0, []).
completeAsyncIteratorValue(S, itemType, n, path, errs) ==
    O(iteratorNext([S EXCEPT !.iter = [pull |-> "none", pulls |-> 0, index |-> 0,
                                       completedResults |-> <<>>, resolved |-> FALSE,
                                       queued |-> FALSE, mode |-> "inline",
                                       payload |-> 0, n |-> n, path |-> path,
                                       errs |-> errs, itemType |-> itemType]],
                   0),
      RProm(n))

\* The catch block around the completion of a list element: the error is
\* located at the element and handled against the element type.
itemCaught(c, itemType, n, itemPath, errs) ==
    IF c.r.k = "throw"
    THEN handleFieldError(c.S, locatedError(c.r.e, n, pathToArray(itemPath)),
                          itemType, errs)
    ELSE c

\* The for-of loop of completeListValue over an array, from element i on.
completeListItems(S, itemType, n, path, items, i, completedResults, errs) ==
    IF i > Len(items) THEN O(S, RVal(ListV(completedResults)))
    ELSE IF streamFrom(getStreamValues(n), i - 1)
    THEN completeListItems(
             addValue(S, addPath(path, IndexKey(i - 1)), items[i], n, itemType,
                      getStreamValues(n).label),
             itemType, n, path, items, i + 1, completedResults, errs)
    ELSE completeListRest(
             itemCaught(completeValue(S, itemType, n, addPath(path, IndexKey(i - 1)),
                                      items[i], errs),
                        itemType, n, addPath(path, IndexKey(i - 1)), errs),
             itemType, n, path, items, i, completedResults, errs)

\* completedResults.push(...) and the next round, or the exception leaving
\* the loop.
completeListRest(h, itemType, n, path, items, i, completedResults, errs) ==
    IF h.r.k = "throw" THEN h
    ELSE completeListItems(h.S, itemType, n, path, items, i + 1,
                           Append(completedResults, h.r.v), errs)

completeListValue(S, returnType, n, path, result, errs) ==
    IF result.t = "asyncIterable"
    THEN completeAsyncIteratorValue(S, returnType.ofType, n, path, errs)
    ELSE IF result.t # "array"
    THEN O(S, RThrow(Error("Expected Iterable, but did not find one for field", n)))
    ELSE completeListItems(S, returnType.ofType, n, path, result.items, 1, <<>>, errs)

\* promiseForObject(results), called when some field returned a promise.
promiseForObject(S, g, results) ==
    O([S EXCEPT !.agg[g] = [st |-> "pending", results |-> results,
                            val |-> NoValue, err |-> NoError]],
      RProm(g))

\* The loop of executeFields over the grouped fields, from field i on, and its
\* return.  g names the selection set.
executeFieldsFrom(S, g, path, fields, i, results, containsPromise, errs) ==
    IF i > Len(fields)
    THEN IF ~containsPromise THEN O(S, RVal(ObjV(results)))
         ELSE promiseForObject(S, g, results)
    ELSE executeFieldsRest(executeField(S, fields[i], addPath(path, fields[i]), errs),
                           g, path, fields, i, results, containsPromise, errs)

\* What the loop does with the result of executeField: an exception leaves
\* executeFields, undefined is skipped, anything else is stored under the
\* response name.
executeFieldsRest(o, g, path, fields, i, results, containsPromise, errs) ==
    IF o.r.k = "throw" THEN o
    ELSE executeFieldsFrom(
             o.S, g, path, fields, i + 1,
             CASE o.r.k = "undefined" -> results
               [] o.r.k = "promise" -> AddResult(results, fields[i], PromiseOf(fields[i]))
               [] OTHER -> AddResult(results, fields[i], o.r.v),
             containsPromise \/ o.r.k = "promise", errs)

\* A faulty executeFields that starts the fields last to first: C30 does not
\* hold of it.
executeFieldsBackwards(S, g, path, fields, errs) ==
    executeFieldsFrom(S, g, path, [i \in DOMAIN fields |-> fields[Len(fields) + 1 - i]],
                      1, <<>>, FALSE, errs)

executeFields(S, g, path, fields, errs) ==
    executeFieldsFrom(S, g, path, fields, 1, <<>>, FALSE, errs)

\* The loop of collectAndExecuteSubfields over subPatches, from patch i on:
\* each patch's fields are executed against a new list of errors, the one the
\* payload is pushed with.
executeSubPatchesRest(o, returnType, path, patches, i, subFields) ==
    IF o.r.k = "throw" THEN o
    ELSE executeSubPatchesFrom(addFields(o.S, o.r, o.S.subPatchErrors, patches[i].label,
                                         path),
                               returnType, path, patches, i + 1, subFields)

executeSubPatchesFrom(S, returnType, path, patches, i, subFields) ==
    IF i > Len(patches) THEN O(S, subFields)
    ELSE executeSubPatchesRest(
             executeFields([S EXCEPT !.subPatchErrors = <<>>], "sub", path,
                           patches[i].fields, S.dispatcher.created + 1),
             returnType, path, patches, i, subFields)

\* The part of collectAndExecuteSubfields after executeFields was called for
\* the sub-selection.
executeSubPatches(subFields, returnType, n, path) ==
    IF subFields.r.k = "throw" THEN subFields
    ELSE executeSubPatchesFrom(subFields.S, returnType, path,
                               collectSubfields(returnType, n).patches, 1, subFields.r)

collectAndExecuteSubfields(S, returnType, n, path, result, errs) ==
    executeSubPatches(executeFields(S, n, path, collectSubfields(returnType, n).fields,
                                    errs),
                      returnType, n, path)

invalidReturnTypeError(returnType) ==
    Error("Expected value of type but got", returnType.name)

\* returnType.isTypeOf(result, contextValue, info) is called: the call is
\* recorded.
callIsTypeOf(S, name) == [S EXCEPT !.typing.checked = Append(@, name)]

IsPromised(isTypeOf) == isTypeOf \in {"promiseTrue", "promiseFalse"}

\* A faulty completion that never asks isTypeOf: C25 does not hold of it.
completeObjectValueUnchecked(S, returnType, n, path, result, errs) ==
    collectAndExecuteSubfields(S, returnType, n, path, result, errs)

\* completeObjectValue: isTypeOf, when the type has one, is asked before the
\* sub-selection is collected; its promise suspends the completion.
completeObjectValue(S, returnType, n, path, result, errs) ==
    CASE args.isTypeOf[returnType.name] = "none" ->
           collectAndExecuteSubfields(S, returnType, n, path, result, errs)
      [] IsPromised(args.isTypeOf[returnType.name]) ->
           O([callIsTypeOf(S, returnType.name)
                 EXCEPT !.typing.wait = "isTypeOf", !.typing.type = returnType.name],
             RProm(n))
      [] args.isTypeOf[returnType.name] = "false" ->
           O(callIsTypeOf(S, returnType.name), RThrow(invalidReturnTypeError(returnType)))
      [] OTHER ->
           collectAndExecuteSubfields(callIsTypeOf(S, returnType.name), returnType, n,
                                      path, result, errs)

\* The callback completeObjectValue chained on the promise of isTypeOf.
isTypeOfResolved(S, resolvedIsTypeOf, returnType, n, path, result, errs) ==
    IF ~resolvedIsTypeOf THEN O(S, RThrow(invalidReturnTypeError(returnType)))
    ELSE collectAndExecuteSubfields(S, returnType, n, path, result, errs)

\* A faulty validation that accepts every Object type of the schema: C24 does
\* not hold of it.
ensureValidRuntimeTypeAnyObject(runtimeTypeName, returnType) ==
    CASE runtimeTypeName.t # "string" ->
           RThrow(Error("Abstract type must resolve to an Object type at runtime",
                        returnType.name))
      [] getType(runtimeTypeName.v).kind = "undefined" ->
           RThrow(Error("Abstract type was resolved to a type that does not exist inside the schema",
                        returnType.name))
      [] ~isObjectType(getType(runtimeTypeName.v)) ->
           RThrow(Error("Abstract type was resolved to a non-object type", returnType.name))
      [] OTHER -> RVal(getType(runtimeTypeName.v))

\* ensureValidRuntimeType: the Object type of that name, or the error.
ensureValidRuntimeType(runtimeTypeName, returnType) ==
    CASE runtimeTypeName.t = "undefined" ->
           RThrow(Error("Abstract type must resolve to an Object type at runtime",
                        returnType.name))
      [] runtimeTypeName.t = "objectType" ->
           RThrow(Error("Support for returning GraphQLObjectType from resolveType was removed",
                        returnType.name))
      [] runtimeTypeName.t # "string" ->
           RThrow(Error("Abstract type must resolve to an Object type at runtime, received",
                        returnType.name))
      [] getType(runtimeTypeName.v).kind = "undefined" ->
           RThrow(Error("Abstract type was resolved to a type that does not exist inside the schema",
                        returnType.name))
      [] ~isObjectType(getType(runtimeTypeName.v)) ->
           RThrow(Error("Abstract type was resolved to a non-object type", returnType.name))
      [] ~isSubType(returnType, getType(runtimeTypeName.v)) ->
           RThrow(Error("Runtime Object type is not a possible type", returnType.name))
      [] OTHER -> RVal(getType(runtimeTypeName.v))

\* completeObjectValue(exeContext, ensureValidRuntimeType(...), ...): the
\* argument is evaluated first, and its exception leaves the call.
completeRuntimeType(S, runtimeType, n, path, result, errs) ==
    IF runtimeType.k = "throw" THEN O(S, runtimeType)
    ELSE completeObjectValue(S, runtimeType.v, n, path, result, errs)

\* What Promise.all(promisedIsTypeOfResults).then(...) of the default resolver
\* fulfils with: the first possible type, in order, whose promise gave true.
firstPromisedType(possibleTypes, promised) ==
    LET hits == {i \in DOMAIN possibleTypes :
                    i \in promised /\ args.isTypeOf[possibleTypes[i]] = "promiseTrue"}
    IN IF hits = {} THEN RuntimeUndefined
       ELSE RuntimeName(possibleTypes[CHOOSE i \in hits : \A j \in hits : i <= j])

\* The loop of defaultTypeResolver over the possible types, from the i-th on,
\* and what follows it.  promised holds the positions whose isTypeOf returned
\* a promise.
RECURSIVE defaultTypeResolverFrom(_, _, _, _)
defaultTypeResolverFrom(S, possibleTypes, i, promised) ==
    IF i > Len(possibleTypes)
    THEN IF promised # {}
         THEN O([S EXCEPT !.typing.value = firstPromisedType(possibleTypes, promised)],
                RProm("runtimeType"))
         ELSE O(S, RVal(RuntimeUndefined))
    ELSE CASE args.isTypeOf[possibleTypes[i]] = "none" ->
                defaultTypeResolverFrom(S, possibleTypes, i + 1, promised)
           [] IsPromised(args.isTypeOf[possibleTypes[i]]) ->
                defaultTypeResolverFrom(callIsTypeOf(S, possibleTypes[i]), possibleTypes,
                                        i + 1, promised \cup {i})
           [] args.isTypeOf[possibleTypes[i]] = "true" ->
                O(callIsTypeOf(S, possibleTypes[i]), RVal(RuntimeName(possibleTypes[i])))
           [] OTHER ->
                defaultTypeResolverFrom(callIsTypeOf(S, possibleTypes[i]), possibleTypes,
                                        i + 1, promised)

\* defaultTypeResolver: the value's __typename when it is a string, and
\* otherwise the isTypeOf predicates of the possible types.
defaultTypeResolver(S, abstractType) ==
    IF args.typename # NoName THEN O(S, RVal(RuntimeName(args.typename)))
    ELSE defaultTypeResolverFrom(S, getPossibleTypes(abstractType), 1, {})

\* returnType.resolveType ?? exeContext.typeResolver, called on the value.
resolveTypeFn(S, returnType) ==
    IF ~args.resolveType.provided THEN defaultTypeResolver(S, returnType)
    ELSE IF args.resolveType.via = "promise"
    THEN O([S EXCEPT !.typing.value = args.resolveType.value], RProm("runtimeType"))
    ELSE O(S, RVal(args.resolveType.value))

\* completeAbstractValue once the type resolver has returned: a promise of the
\* runtime type suspends the completion.  typing.runtimeType keeps the answer
\* of the resolver, the runtimeType of completeAbstractValue.
abstractResolved(runtimeType, returnType, n, path, result, errs) ==
    IF runtimeType.r.k = "promise"
    THEN O([runtimeType.S EXCEPT !.typing.wait = "runtimeType"], RProm(n))
    ELSE completeRuntimeType([runtimeType.S EXCEPT !.typing.runtimeType = runtimeType.r.v],
                             ensureValidRuntimeType(runtimeType.r.v, returnType),
                             n, path, result, errs)

completeAbstractValue(S, returnType, n, path, result, errs) ==
    abstractResolved(resolveTypeFn(S, returnType), returnType, n, path, result, errs)

\* The NonNull branch of completeValue, once the inner completion is there.
completeNonNull(completed, n) ==
    IF completed.r.k = "val" /\ completed.r.v = Null
    THEN O(completed.S, RThrow(Error("Cannot return null for non-nullable field", n)))
    ELSE completed

completeValue(S, returnType, n, path, result, errs) ==
    IF result.t = "error" THEN O(S, RThrow(result.e))
    ELSE IF isNonNullType(returnType)
    THEN completeNonNull(completeValue(S, returnType.ofType, n, path, result, errs), n)
    ELSE IF result.t \in {"null", "undefined"} THEN O(S, RVal(Null))
    ELSE IF isListType(returnType)
    THEN completeListValue(S, returnType, n, path, result, errs)
    ELSE IF isLeafType(returnType)
    THEN O(S, completeLeafValue(returnType, result))
    ELSE IF isAbstractType(returnType)
    THEN completeAbstractValue(S, returnType, n, path, result, errs)
    ELSE completeObjectValue(S, returnType, n, path, result, errs)

\* The catch block of executeField and the rejection handler it attaches to a
\* pending completion: locate the error, then handleFieldError.
\* A faulty handler that passes the raw error on as it is: C31 does not hold
\* of it.
fieldErrorHandlerRaw(S, rawError, n, path, returnType, errs) ==
    handleFieldError(S, rawError, returnType, errs)

fieldErrorHandler(S, rawError, n, path, returnType, errs) ==
    handleFieldError(S, locatedError(rawError, n, pathToArray(path)), returnType, errs)

\* The resolver of field n is called: the call is recorded.
invokeResolver(S, n, path, errs) ==
    [S EXCEPT !.invoked = Append(@, n), !.fld[n].path = path, !.fld[n].errs = errs]

\* What executeField returns synchronously: a value or an exception.
fieldReturned(h, n) ==
    IF h.r.k = "throw" THEN O([h.S EXCEPT !.fld[n].st = "threw"], h.r)
    ELSE O([h.S EXCEPT !.fld[n].st = "returned", !.fld[n].val = h.r.v], h.r)

\* The end of executeField's try block and its catch block: completed is the
\* completed value, the promise of it, or the exception of the resolver or of
\* completeValue.
executeFieldCompleted(completed, n, path, returnType, errs) ==
    IF completed.r.k = "promise"
    THEN O([completed.S EXCEPT !.fld[n].st = "completing"], RProm(n))
    ELSE IF completed.r.k = "throw"
    THEN fieldReturned(fieldErrorHandler(completed.S, completed.r.e, n, path,
                                         returnType, errs), n)
    ELSE fieldReturned(completed, n)

\* The parent type executeField is given for the field node n: the root type
\* of the operation for a root field, and for a field of p's selection set the
\* object type p's value was completed as.
parentTypeOf(S, n) ==
    IF n \in {"a", "b"}
    THEN (IF args.abstract THEN S.typing.runtimeType.v ELSE "P")
    ELSE IF buildExecutionContext(args).operation.operation = "mutation"
    THEN "Mutation"
    ELSE "Query"

executeField(S, n, path, errs) ==
    IF getFieldDef(parentTypeOf(S, n), n) = Undefined THEN O(S, RUndef)
    ELSE IF IsAsync(args.resolve[n])
    THEN O([invokeResolver(S, n, path, errs) EXCEPT !.fld[n].st = "resolving"],
           RProm(n))
    ELSE executeFieldCompleted(
             IF args.resolve[n] = "throw"
             THEN O(invokeResolver(S, n, path, errs),
                    RThrow(Error("resolver failed", n)))
             ELSE completeValue(invokeResolver(S, n, path, errs),
                                getFieldDef(parentTypeOf(S, n), n).type, n, path,
                                ReturnedValue(n),
                                errs),
             n, path, getFieldDef(parentTypeOf(S, n), n).type, errs)

-----------------------------------------------------------------------------
(* The top level: execute's continuations on the result of executeOperation *)

hasSubsequentPayloads(d) == Len(d.subsequentPayloads) # 0

\* Dispatcher.get(initialResult): stores the initial result; the async iterable
\* it returns is the dispatcher itself.
get(d, initialResult) == [d EXCEPT !.initialResult = initialResult]

RetResponse(r) == [k |-> "response", value |-> r]
RetIterable == [k |-> "iterable", value |-> NoValue]
RetPromise == [k |-> "promise", value |-> NoValue]
RetNone == [k |-> "none", value |-> NoValue]

\* A faulty hand-over that always goes through the dispatcher: C1 does not
\* hold of it.
respondWithSequence(S, data) ==
    [S |-> [S EXCEPT !.dispatcher = get(@, buildResponse(data, S.errors))],
     ret |-> RetIterable]

\* What execute hands over once the data is known: the initial result, or the
\* dispatcher's async iterable when payloads are pending.  [S, ret]
respond(S, data) ==
    IF hasSubsequentPayloads(S.dispatcher)
    THEN [S |-> [S EXCEPT !.dispatcher = get(@, buildResponse(data, S.errors))],
          ret |-> RetIterable]
    ELSE [S |-> S, ret |-> RetResponse(buildResponse(data, S.errors))]

\* A faulty recovery that forgets to record the error: C9 does not hold of it.
recoverNoPush(S, error) ==
    [S |-> S, ret |-> RetResponse(buildResponse(Null, S.errors))]

\* exeContext.errors.push(error); return buildResponse(null, exeContext.errors)
recover(S, error) ==
    [S |-> [S EXCEPT !.errors = Append(@, error)],
     ret |-> RetResponse(buildResponse(Null, Append(S.errors, error)))]

\* The promise execute returned is fulfilled with what a callback returned.
fulfilWith(r) == [r.S EXCEPT !.prom = [st |-> "fulfilled", value |-> r.ret]]

\* A missing rejection callback, the rejection passing through: C3 does not
\* hold of it.
onRejectedPassing(S, error) ==
    [S EXCEPT !.prom = [st |-> "rejected", value |-> RetNone]]

\* result.then(onFulfilled, onRejected): the two callbacks.
onFulfilled(S, data) ==
    fulfilWith(respond(S, data))

onRejected(S, error) ==
    fulfilWith(recover(S, error))

\* The promise executeOperation returned settles.
RootSettled(S, out) ==
    IF S.prom.st # "pending"
    THEN [S EXCEPT !.opResult = [st |-> out.st, err |-> out.err]]
    ELSE IF out.st = "rejected"
    THEN onRejected([S EXCEPT !.opResult = [st |-> out.st, err |-> out.err]], out.err)
    ELSE onFulfilled([S EXCEPT !.opResult = [st |-> out.st, err |-> out.err]], out.val)

-----------------------------------------------------------------------------
(* Settlement of the promises of the main execution *)

Fulfilled(v) == [st |-> "fulfilled", val |-> v, err |-> NoError]
Rejected(e) == [st |-> "rejected", val |-> NoValue, err |-> e]

\* Promise.all inside promiseForObject: every promise of the results object is
\* fulfilled, and the object it then builds, key by key in the order of results.
AllFulfilled(S, results) ==
    \A i \in 1..Len(results) :
        results[i][2].t = "promise" => S.fld[results[i][2].of].st = "fulfilled"

ResolvedObject(S, results) ==
    ObjV([i \in 1..Len(results) |->
            IF results[i][2].t = "promise"
            THEN << results[i][1], S.fld[results[i][2].of].val >>
            ELSE results[i]])

RECURSIVE executeFieldsSeriallyFrom(_, _, _, _, _)
RECURSIVE executeFieldsSeriallyRest(_, _, _, _, _)
RECURSIVE FieldSettled(_, _, _)
RECURSIVE CompletedSettled(_, _, _)
RECURSIVE AggSettled(_, _, _)
RECURSIVE serialResume(_, _)

\* promiseReduce over the grouped fields, from field i on: the callback runs at
\* once while the accumulator is no promise, and otherwise when it fulfils.
executeFieldsSeriallyFrom(S, path, fields, i, results) ==
    IF i > Len(fields)
    THEN O([S EXCEPT !.serial.st = "done"], RVal(ObjV(results)))
    ELSE executeFieldsSeriallyRest(
             executeField(S, fields[i], addPath(path, fields[i]), 0),
             path, fields, i, results)

\* The callback of the reduction after executeField: an exception ends the
\* chain, a promise suspends it, anything else goes into results.
executeFieldsSeriallyRest(o, path, fields, i, results) ==
    CASE o.r.k = "throw" -> O([o.S EXCEPT !.serial.st = "done"], o.r)
      [] o.r.k = "promise" ->
           O([o.S EXCEPT !.serial = [st |-> "waiting", idx |-> i, fields |-> fields,
                                     path |-> path, results |-> results]],
             RProm("root"))
      [] OTHER ->
           executeFieldsSeriallyFrom(
               o.S, path, fields, i + 1,
               IF o.r.k = "undefined" THEN results
               ELSE AddResult(results, fields[i], o.r.v))

\* The root fields of a mutation executed like those of a query.
executeFieldsUnordered(S, path, fields) == executeFields(S, "root", path, fields, 0)

executeFieldsSerially(S, path, fields) ==
    executeFieldsSeriallyFrom(S, path, fields, 1, <<>>)

\* The chain has run as far as it can: it is suspended again, or the promise
\* executeFieldsSerially returned settles.
serialSettled(o) ==
    IF o.r.k = "promise" THEN o.S
    ELSE RootSettled(o.S, IF o.r.k = "throw" THEN Rejected(o.r.e)
                          ELSE Fulfilled(o.r.v))

\* The field the chain waits for has settled: result.then(resolvedResult => ...)
\* stores it and the reduction goes on; a rejection ends the chain.
serialResume(S, out) ==
    serialSettled(
        IF out.st = "rejected"
        THEN O([S EXCEPT !.serial.st = "done"], RThrow(out.err))
        ELSE executeFieldsSeriallyFrom(
                 S, S.serial.path, S.serial.fields, S.serial.idx + 1,
                 AddResult(S.serial.results, S.serial.fields[S.serial.idx], out.val)))

\* The selection set of field n hears of the settlement, if it still listens:
\* the serial chain when it waits for n, else Promise.all of promiseForObject.
notifyParent(S, n, out) ==
    IF AggOf(n) = "root" /\ S.serial.st = "waiting"
    THEN IF S.serial.fields[S.serial.idx] = n THEN serialResume(S, out) ELSE S
    ELSE IF S.agg[AggOf(n)].st # "pending" THEN S
    ELSE IF out.st = "rejected" \/ AllFulfilled(S, S.agg[AggOf(n)].results)
    THEN AggSettled(S, AggOf(n),
                    IF out.st = "rejected" THEN out
                    ELSE Fulfilled(ResolvedObject(S, S.agg[AggOf(n)].results)))
    ELSE S

\* The promise executeField returned for field n settles.
FieldSettled(S, n, out) ==
    notifyParent([S EXCEPT !.fld[n].st = out.st, !.fld[n].val = out.val,
                           !.fld[n].err = out.err],
                 n, out)

\* The outcome of a promise whose last callback returned or threw h.r.
settledFrom(h, n) ==
    FieldSettled(h.S, n, IF h.r.k = "throw" THEN Rejected(h.r.e)
                         ELSE Fulfilled(h.r.v))

\* The completion of field n (the promise completeValue returned, or the one
\* chained on the resolver's promise) settles: a rejection goes through the
\* handler executeField attached.
CompletedSettled(S, n, out) ==
    settledFrom(IF out.st = "fulfilled" THEN O(S, RVal(out.val))
                ELSE fieldErrorHandler(S, out.err, n, S.fld[n].path, FieldType(n),
                                       S.fld[n].errs),
                n)

\* Who waits for the promise of selection set g.
aggNotify(S, g, out) ==
    CASE g = "root" -> RootSettled(S, out)
      [] g \in {"patch", "sub"} -> S
      [] OTHER -> CompletedSettled(S, g, out)

\* The promise of a selection set settles.
AggSettled(S, g, out) ==
    aggNotify([S EXCEPT !.agg[g].st = out.st, !.agg[g].val = out.val,
                        !.agg[g].err = out.err],
              g, out)

-----------------------------------------------------------------------------
(* executeOperation and execute *)

\* The loop over the root patches, from patch i on: each patch's fields are
\* executed with exeContext.errors, and the dispatcher gets a new error list.
RECURSIVE executePatchesFrom(_, _, _, _)
RECURSIVE executePatchesRest(_, _, _, _)

executePatchesFrom(S, patches, i, result) ==
    IF i > Len(patches) THEN O(S, result)
    ELSE executePatchesRest(executeFields(S, "patch", NoPath, patches[i].fields, 0),
                            patches, i, result)

executePatchesRest(o, patches, i, result) ==
    IF o.r.k = "throw" THEN o
    ELSE executePatchesFrom(addFields(o.S, o.r, <<>>, patches[i].label, NoPath),
                            patches, i + 1, result)

\* The part of executeOperation after the main selection set was started.
executeOperationPatches(main, patches) ==
    IF main.r.k = "throw" THEN main
    ELSE executePatchesFrom(main.S, patches, 1, main.r)

\* A faulty executeOperation that does not look for the root type: C29 does
\* not hold of it.
executeOperationAnyRoot(S, operation) ==
    executeOperationPatches(
        IF operation.operation = "mutation"
        THEN executeFieldsSerially(S, NoPath, collectFields(operation).fields)
        ELSE executeFields(S, "root", NoPath, collectFields(operation).fields, 0),
        collectFields(operation).patches)

\* new GraphQLError(message, operation): the error carries the operation node
\* and no path.
executeOperation(S, operation) ==
    IF getRootType(operation.operation) = Undefined
    THEN O(S, RThrow(GraphQLError("Schema is not configured to execute operation.",
                                  "operation")))
    ELSE executeOperationPatches(
             IF operation.operation = "mutation"
             THEN executeFieldsSerially(S, NoPath, collectFields(operation).fields)
             ELSE executeFields(S, "root", NoPath, collectFields(operation).fields, 0),
             collectFields(operation).patches)

\* The try / catch of execute around executeOperation, o being what
\* executeOperation returned or threw.
executeResult(o) ==
    CASE o.r.k = "promise" ->
           [S |-> [o.S EXCEPT !.prom = [st |-> "pending", value |-> RetNone],
                              !.opResult = [st |-> "pending", err |-> NoError]],
            ret |-> RetPromise]
      [] o.r.k = "throw" ->
           recover([o.S EXCEPT !.opResult = [st |-> "threw", err |-> o.r.e]], o.r.e)
      [] OTHER ->
           respond([o.S EXCEPT !.opResult = [st |-> "value", err |-> NoError]], o.r.v)

\* A faulty execute that keeps the errors list and the dispatcher of the call
\* before it: C17 does not hold of it.
executeContextKept(S, exeContext) ==
    IF ~exeContext.ok
    THEN [S |-> S, ret |-> RetResponse([errors |-> exeContext.errors])]
    ELSE executeResult(executeOperation(S, exeContext.operation))

\* execute once buildExecutionContext has returned: the request errors, or the
\* execution with the errors list and the dispatcher of the new context.
executeContext(S, exeContext) ==
    IF ~exeContext.ok
    THEN [S |-> S, ret |-> RetResponse([errors |-> exeContext.errors])]
    ELSE executeResult(executeOperation([S EXCEPT !.errors = exeContext.errors,
                                                  !.dispatcher = exeContext.dispatcher],
                                        exeContext.operation))

\* execute(args): [S, ret]
execute(S) == executeContext(S, buildExecutionContext(args))

\* The check of executeSync on what execute returned.
executeSyncResult(result) ==
    [S |-> result.S, ret |-> result.ret,
     outcome |-> IF result.ret.k = "promise" \/ result.ret.k = "iterable"
                 THEN "threw" ELSE "returned"]

\* executeSync(args): what execute did, and whether executeSync returned its
\* result or threw 'GraphQL execution failed to complete synchronously.'
executeSync(S) == executeSyncResult(execute(S))

-----------------------------------------------------------------------------
(* Continuations run when the host settles a promise *)

\* The continuation addFields chained on promiseOrData: it builds the patch
\* result once the data is there, and passes a rejection on.
fieldsSettled(S, payload) ==
    IF payload.src.k = "data"
    THEN settleById(S, payload.id, "patch", payload.src.v)
    ELSE IF S.agg[payload.src.g].st = "fulfilled"
    THEN settleById(S, payload.id, "patch", S.agg[payload.src.g].val)
    ELSE IF S.agg[payload.src.g].st = "rejected"
    THEN settleById(S, payload.id, "reject", Null)
    ELSE S

\* The continuations addValue chained on the element: completeValue, the
\* rejection handler, and the one that builds the patch result.
valueSettled(S, payload) ==
    patchCompleted(completeValue(S, payload.itemType, payload.n, payload.path,
                                 payload.src.v, payload.id),
                   payload.id, payload.n, payload.itemType, payload.path)

\* The continuations of one payload promise that can run now.
settlePayload(S, payload) ==
    IF payload.st # "pending" THEN S
    ELSE CASE payload.kind = "fields" -> fieldsSettled(S, payload)
           [] payload.kind = "value" -> valueSettled(S, payload)
           [] OTHER -> S

\* The microtasks of the dispatcher's payloads, drained at the end of a task,
\* from the k-th promise of the queue on.
RECURSIVE settlePayloadsFrom(_, _)
settlePayloadsFrom(S, k) ==
    IF k > Len(S.dispatcher.subsequentPayloads) THEN S
    ELSE settlePayloadsFrom(settlePayload(S, S.dispatcher.subsequentPayloads[k]), k + 1)

\* A task in which a payload promise settled counts as one tick.
bumpTick(S) ==
    IF \E k \in DOMAIN S.dispatcher.subsequentPayloads :
           S.dispatcher.subsequentPayloads[k].tick > S.dispatcher.tick
    THEN [S EXCEPT !.dispatcher.tick = @ + 1]
    ELSE S

settlePayloads(S) == bumpTick(settlePayloadsFrom(S, 1))

\* The then-callback on a resolver's promise returned or threw: the promise
\* executeField holds is still pending, or it settles.
resolverCompleted(completed, n) ==
    IF completed.r.k = "promise" THEN [completed.S EXCEPT !.fld[n].st = "completing"]
    ELSE CompletedSettled(completed.S, n,
                          IF completed.r.k = "throw" THEN Rejected(completed.r.e)
                          ELSE Fulfilled(completed.r.v))

\* The promise a resolver returned settles: result.then(resolved =>
\* completeValue(...)) runs, and a rejection skips it.
resolverSettled(S, n) ==
    resolverCompleted(
        IF args.resolve[n] = "promiseReject"
        THEN O(S, RThrow(Error("resolver failed", n)))
        ELSE completeValue(S, FieldType(n), n, S.fld[n].path,
                           IF args.resolve[n] = "promiseNull" THEN RawNull
                           ELSE ResolvedValue(n),
                           S.fld[n].errs),
        n)

\* The promise of the runtime type settles: the callback completeAbstractValue
\* chained on it validates the name and completes the value as that type.
runtimeTypeSettled(S) ==
    resolverCompleted(
        completeRuntimeType([S EXCEPT !.typing.wait = "none",
                                      !.typing.runtimeType = S.typing.value],
                            ensureValidRuntimeType(S.typing.value, AbstractType("U")),
                            "p", S.fld["p"].path, ResolvedValue("p"), S.fld["p"].errs),
        "p")

\* The promise isTypeOf returned settles.
isTypeOfSettled(S) ==
    resolverCompleted(
        isTypeOfResolved([S EXCEPT !.typing.wait = "none"],
                         args.isTypeOf[S.typing.type] = "promiseTrue",
                         ObjectType(S.typing.type), "p", S.fld["p"].path,
                         ResolvedValue("p"), S.fld["p"].errs),
        "p")

\* resolve(completedResults) of completeAsyncIteratorValue: only the first call
\* settles the list's promise, with the array itself.
resolveList(S) ==
    IF S.iter.resolved THEN S
    ELSE CompletedSettled([S EXCEPT !.iter.resolved = TRUE], S.iter.n,
                          Fulfilled(ListRef))

\* resolve(completedResults): the continuation of the list's promise is
\* queued; it runs once the callback has returned.
queueResolve(S, called) ==
    IF called THEN [S EXCEPT !.iter.queued = TRUE] ELSE S

\* The continuation of the list's promise, if it is queued.
drainList(S) ==
    IF S.iter.queued THEN resolveList([S EXCEPT !.iter.queued = FALSE]) ELSE S

\* The end of a callback of iterator.next(): t.resolve says whether it called
\* resolve(completedResults), t.pull what becomes of the loop ("pending":
\* next(index + 1, completedResults) was called; "done": no further pull;
\* "dead": the callback threw).
pullFinished(t) ==
    IF t.pull = "pending"
    THEN iteratorNext(queueResolve(t.S, t.resolve), t.S.iter.index + 1)
    ELSE [queueResolve(t.S, t.resolve) EXCEPT !.iter.pull = t.pull]

\* After completedResults.push(null) and handleFieldError in a callback.
pullCaught(h, goOn) ==
    IF h.r.k = "throw" THEN [S |-> h.S, resolve |-> FALSE, pull |-> "dead"]
    ELSE [S |-> h.S, resolve |-> TRUE, pull |-> IF goOn THEN "pending" ELSE "done"]

\* The body of a callback after the element was completed, or after the
\* pull failed (goOn = FALSE).
pullCompleted(c, it, goOn) ==
    IF c.r.k = "throw"
    THEN pullCaught(
             handleFieldError(
                 [c.S EXCEPT !.iter.completedResults = Append(@, Null)],
                 locatedError(c.r.e, it.n,
                              pathToArray(addPath(it.path, IndexKey(it.index)))),
                 it.itemType, it.errs),
             goOn)
    ELSE [S |-> [c.S EXCEPT !.iter.completedResults = Append(@, c.r.v)],
          resolve |-> FALSE, pull |-> "pending"]

\* iterator.next() settles for the dispatcher: the two callbacks of
\* addAsyncIteratorValue.  The terminal signal and a failed pull end the
\* pulling; an element makes next(index + 1) push the next payload promise
\* before it is completed.
streamNextSettled(S) ==
    IF S.iter.pulls > Len(args.items)
    THEN settleById([S EXCEPT !.iter.pull = "done"], S.iter.payload, "done", Null)
    ELSE IF args.items[S.iter.pulls] = "err"
    THEN patchCaught(
             handleFieldError(
                 [S EXCEPT !.iter.pull = "done"],
                 locatedError(Error("item failed", S.iter.n), S.iter.n,
                              pathToArray(addPath(S.iter.path, IndexKey(S.iter.index)))),
                 S.iter.itemType, S.iter.payload),
             S.iter.payload)
    ELSE patchCompleted(
             completeValue(
                 addAsyncIteratorValue(S, S.iter.index + 1, S.iter.n, S.iter.itemType,
                                       S.iter.path, getStreamValues(S.iter.n).label),
                 S.iter.itemType, S.iter.n,
                 addPath(S.iter.path, IndexKey(S.iter.index)),
                 ItemRaw(args.items[S.iter.pulls]), S.iter.payload),
             S.iter.payload, S.iter.n, S.iter.itemType,
             addPath(S.iter.path, IndexKey(S.iter.index)))

\* iterator.next() settles: the two callbacks of completeAsyncIteratorValue.
iteratorNextSettled(S) ==
    pullFinished(
        IF S.iter.pulls > Len(args.items)
        THEN [S |-> S, resolve |-> TRUE, pull |-> "done"]
        ELSE IF args.items[S.iter.pulls] = "err"
        THEN pullCompleted(O(S, RThrow(Error("item failed", S.iter.n))), S.iter, FALSE)
        ELSE pullCompleted(
                 completeValue(S, S.iter.itemType, S.iter.n,
                               addPath(S.iter.path, IndexKey(S.iter.index)),
                               ItemRaw(args.items[S.iter.pulls]), S.iter.errs),
                 S.iter, TRUE))

-----------------------------------------------------------------------------
(* The async iterable of the dispatcher: next(), _next(), _race() *)

\* An IteratorResult as the consumer receives it.  of and tick remember the
\* payload promise it was read from and the tick in which that promise
\* settled (0: no payload promise).
Received(result, of, tick) == [result |-> result, of |-> of, tick |-> tick]

\* { ...value, hasNext }
WithHasNext(value, hasNext) == [hasNext |-> hasNext] @@ value

NoPayload == [id |-> 0]

\* The identities of the promises in the queue, in queue order.
QueueIds(q) == [k \in DOMAIN q |-> q[k].id]

\* q.indexOf(promise), counted from 1; 0 when the promise is not in the queue
\* (indexOf gives -1).
indexOf(q, id) ==
    IF \E k \in DOMAIN q : q[k].id = id
    THEN CHOOSE k \in DOMAIN q : q[k].id = id
    ELSE 0

\* q.pop(): the last entry is removed, whatever the index.
spliceLast(q, index) ==
    IF Len(q) = 0 THEN q ELSE [j \in 1..(Len(q) - 1) |-> q[j]]

\* q.splice(index, 1): index -1 counts from the end of the array.
splice(q, index) ==
    IF Len(q) = 0 THEN q
    ELSE LET at == IF index = 0 THEN Len(q) ELSE index IN
         [j \in 1..(Len(q) - 1) |-> IF j < at THEN q[j] ELSE q[j + 1]]

\* The promises a race listens to that are fulfilled, by position in the order
\* in which forEach attached the callbacks.
FulfilledOf(q, listening) ==
    {k \in DOMAIN listening :
        \E j \in DOMAIN q : q[j].id = listening[k] /\ q[j].st = "fulfilled"}

Min(set) == CHOOSE k \in set : \A j \in set : k <= j

\* What one splice of _race did, for the record: the promise that won the
\* race and the tick in which it settled, the earliest tick in which a promise
\* of that race settled, the entry splice took out of the queue q (0: none)
\* and the number of entries it left.
Spliced(q, q0, call, id) ==
    LET at == IF indexOf(q, id) = 0 THEN Len(q) ELSE indexOf(q, id) IN
    [won |-> id,
     wonTick |-> q0[indexOf(q0, id)].tick,
     minTick |-> Min({q0[j].tick : j \in {j \in DOMAIN q0 :
                         /\ q0[j].st = "fulfilled"
                         /\ \E k \in DOMAIN call.listening : call.listening[k] = q0[j].id}}),
     removed |-> IF at = 0 THEN 0 ELSE q[at].id,
     left |-> Len(splice(q, indexOf(q, id))),
     done |-> q0[indexOf(q0, id)].result.done]

\* The race of a call is decided: resolve({ promise }) was called for the
\* first fulfilled promise it listens to.
Decided(q, call) == call.won.id = 0 /\ FulfilledOf(q, call.listening) # {}

RECURSIVE raceRemoveFrom(_, _, _)
RECURSIVE raceEmitFrom(_, _, _)
RECURSIVE raceSettled(_)

\* The first continuation of _race, for the calls from the i-th on: the
\* promise that won the race is spliced out of the queue by indexOf.  q0 is
\* the queue when the races were decided.
raceRemoveFrom(S, q0, i) ==
    IF i > Len(S.consumer.calls) THEN S
    ELSE IF ~Decided(q0, S.consumer.calls[i]) THEN raceRemoveFrom(S, q0, i + 1)
    ELSE LET call == S.consumer.calls[i]
             id == call.listening[Min(FulfilledOf(q0, call.listening))]
         IN raceRemoveFrom(
                [S EXCEPT !.consumer.calls[i].won = q0[indexOf(q0, id)],
                          !.consumer.spliced =
                              Append(@, Spliced(S.dispatcher.subsequentPayloads, q0,
                                                call, id)),
                          !.dispatcher.subsequentPayloads = splice(@, indexOf(@, id))],
                q0, i + 1)

\* The second continuation of _race, for the calls from the i-th on (kept
\* are the calls before it that are still unanswered): the terminal signal
\* ends the sequence or starts a new race, a patch is handed to the consumer.
raceEmitFrom(S, i, kept) ==
    IF i > Len(S.consumer.calls) THEN [S EXCEPT !.consumer.calls = kept]
    ELSE LET call == S.consumer.calls[i]
             q == S.dispatcher.subsequentPayloads
         IN IF call.won.id = 0 THEN raceEmitFrom(S, i + 1, Append(kept, call))
            ELSE IF call.won.result.done /\ Len(q) = 0
            THEN raceEmitFrom(
                     [S EXCEPT !.consumer.received =
                         Append(@, Received([value |-> [hasNext |-> FALSE], done |-> FALSE],
                                            call.won.id, call.won.tick))],
                     i + 1, kept)
            ELSE IF call.won.result.done
            THEN raceEmitFrom(S, i + 1,
                              Append(kept, [listening |-> QueueIds(q), won |-> NoPayload]))
            ELSE raceEmitFrom(
                     [S EXCEPT !.consumer.received =
                         Append(@, Received([value |-> WithHasNext(call.won.result.value,
                                                                   Len(q) > 0),
                                             done |-> FALSE],
                                            call.won.id, call.won.tick))],
                     i + 1, kept)

\* The continuations of the races that run in this task.
raceSettled(S) ==
    IF \A i \in DOMAIN S.consumer.calls :
           ~Decided(S.dispatcher.subsequentPayloads, S.consumer.calls[i])
    THEN S
    ELSE raceSettled(raceEmitFrom(raceRemoveFrom(S, S.dispatcher.subsequentPayloads, 1),
                                  1, <<>>))

\* _race(): a callback is attached to every promise in the queue.
race(S) ==
    [S EXCEPT !.consumer.calls =
        Append(@, [listening |-> QueueIds(S.dispatcher.subsequentPayloads),
                   won |-> NoPayload])]

\* _next(): the initial result first, the end of the sequence when the queue is
\* empty, a race otherwise.
next(S) ==
    IF ~S.dispatcher.hasReturnedInitialResult
    THEN [S EXCEPT !.dispatcher.hasReturnedInitialResult = TRUE,
                   !.consumer.received =
                       Append(@, Received([value |-> WithHasNext(S.dispatcher.initialResult,
                                                                 TRUE),
                                           done |-> FALSE], 0, 0))]
    ELSE IF Len(S.dispatcher.subsequentPayloads) = 0
    THEN [S EXCEPT !.consumer.received =
             Append(@, Received([value |-> Undefined, done |-> TRUE], 0, 0))]
    ELSE race(S)

-----------------------------------------------------------------------------
(* The requests *)

ItemKinds == {"ok", "null", "bad", "err"}
InitialCounts == {0, 1}
ItemSeqs == UNION {[1..k -> ItemKinds] : k \in 0..MaxItems}

DocAB == << OperationDefinition("query", "A"), OperationDefinition("mutation", "B") >>

Documents ==
    { <<>>,
      << FragmentDefinition("F") >>,
      << OperationDefinition("query", Anonymous) >>,
      << FragmentDefinition("F"), OperationDefinition("mutation", Anonymous) >>,
      DocAB }

OperationNames == {NoName, "A", "B", "Z"}

BaseArgs ==
    [document |-> DocAB, operationName |-> "A", badVariables |-> FALSE,
     mutationType |-> TRUE, selection |-> << "p", "x" >>, defer |-> FALSE,
     nonNull |-> [n \in Nodes |-> FALSE], itemNonNull |-> FALSE,
     resolve |-> [n \in Nodes |-> "value"], source |-> "array", items |-> <<>>,
     stream |-> NoStream, labelled |-> TRUE, abstract |-> FALSE, subDefer |-> FALSE,
     resolveType |-> [provided |-> FALSE, via |-> "return", value |-> RuntimeUndefined],
     typename |-> NoName, isTypeOf |-> [t \in ObjectTypeNames |-> "none"]]

\* Requests that differ in what buildExecutionContext looks at.
ContextRequests ==
    { [BaseArgs EXCEPT !.document = d, !.operationName = o, !.badVariables = v,
                       !.mutationType = m] :
        d \in Documents, o \in OperationNames, v \in BOOLEAN, m \in BOOLEAN }

\* { p { a b } x } as query A and as mutation B.
ObjectRequests ==
    { [BaseArgs EXCEPT !.operationName = o, !.defer = c[1],
           !.nonNull = [n \in Nodes |-> CASE n = "p" -> c[2] [] n = "b" -> c[3]
                                          [] n = "x" -> c[4] [] OTHER -> FALSE],
           !.resolve = [n \in Nodes |-> CASE n = "p" -> r[1] [] n = "a" -> r[2]
                                          [] n = "b" -> r[3] [] n = "x" -> r[4]
                                          [] n = "d" -> r[5] [] OTHER -> "value"]] :
        o \in {"A", "B"},
        c \in BOOLEAN \X BOOLEAN \X BOOLEAN \X BOOLEAN,
        r \in {"value", "null", "promiseValue"}
              \X {"value", "promiseValue", "promiseReject"}
              \X {"value", "null", "promiseValue", "promiseNull"}
              \X {"value", "throw", "promiseValue", "promiseReject"}
              \X {"value", "promiseValue", "promiseReject"} }

\* { x l } as query A and as mutation B.
ListRequests ==
    { [BaseArgs EXCEPT !.operationName = o, !.selection = << "x", "l" >>,
           !.defer = c[1], !.itemNonNull = c[2],
           !.nonNull = [n \in Nodes |-> n = "x" /\ c[3]],
           !.resolve = [n \in Nodes |-> CASE n = "x" -> r[1] [] n = "l" -> r[2]
                                          [] OTHER -> "value"],
           !.source = src, !.items = items] :
        o \in {"A", "B"},
        c \in BOOLEAN \X BOOLEAN \X BOOLEAN,
        r \in {"value", "promiseValue", "promiseReject"} \X {"value", "promiseValue"},
        src \in {"array", "asyncIterator"},
        items \in ItemSeqs }

\* { p { a b } x ... @defer(label: "D") { d } } as query A and as mutation B,
\* with every outcome of the deferred field.
DeferRequests ==
    { [BaseArgs EXCEPT !.operationName = o, !.defer = TRUE,
           !.nonNull = [n \in Nodes |-> n = "d" /\ c],
           !.resolve = [n \in Nodes |-> CASE n = "x" -> r[1] [] n = "d" -> r[2]
                                          [] OTHER -> "value"]] :
        o \in {"A", "B"},
        c \in BOOLEAN,
        r \in {"value", "promiseValue"}
              \X {"value", "null", "throw", "promiseValue", "promiseNull",
                  "promiseReject"} }

\* { x l @stream(initialCount: n, label: "S") } as query A, with or without
\* the deferred fragment.
StreamRequests ==
    { [BaseArgs EXCEPT !.selection = << "x", "l" >>,
           !.defer = c[1], !.itemNonNull = c[2],
           !.resolve = [n \in Nodes |-> IF n = "d" THEN r ELSE "value"],
           !.source = src, !.items = items, !.stream = initialCount] :
        c \in BOOLEAN \X BOOLEAN,
        r \in {"value", "promiseValue"},
        src \in {"array", "asyncIterator"},
        items \in ItemSeqs,
        initialCount \in InitialCounts }

\* What a type resolver may answer with.
RuntimeValues ==
    { RuntimeName("P"), RuntimeName("Q"), RuntimeName("R"), RuntimeName("String"),
      RuntimeName("Missing"), RuntimeUndefined, RuntimeNumber, RuntimeObjectType }

IsTypeOfs == {"none", "true", "false", "promiseTrue", "promiseFalse"}

\* { p { ... on P { a b } ... on Q { a } } x } on `p: U`, with every answer of
\* U.resolveType, returned or promised.
ResolveTypeRequests ==
    { [BaseArgs EXCEPT !.abstract = TRUE,
           !.nonNull = [n \in Nodes |-> n = "p" /\ c],
           !.resolve = [n \in Nodes |-> IF n = "p" THEN r ELSE "value"],
           !.resolveType = [provided |-> TRUE, via |-> via, value |-> v],
           !.isTypeOf = [t \in ObjectTypeNames |-> IF t = "P" THEN i ELSE "none"]] :
        c \in BOOLEAN,
        r \in {"value", "promiseValue"},
        via \in {"return", "promise"},
        v \in RuntimeValues,
        i \in {"none", "true", "promiseFalse"} }

\* The same document on `p: U` without U.resolveType: the default resolver
\* with or without __typename and with every combination of isTypeOf.
IsTypeOfRequests ==
    { [BaseArgs EXCEPT !.abstract = TRUE,
           !.resolve = [n \in Nodes |-> CASE n = "p" -> r[1] [] n = "a" -> r[2]
                                          [] OTHER -> "value"],
           !.typename = t,
           !.isTypeOf = [u \in ObjectTypeNames |-> IF u = "P" THEN i[1] ELSE i[2]]] :
        r \in {"value", "promiseValue"} \X {"value", "promiseValue"},
        t \in {NoName, "P", "Q"},
        i \in IsTypeOfs \X IsTypeOfs }

\* { p { a ... @defer(label: "E") { b } } x } on `p: P!` or `p: P`, with every
\* answer of P.isTypeOf, and the same document with a @defer that has no label.
SubDeferRequests ==
    { [BaseArgs EXCEPT !.subDefer = TRUE, !.labelled = c[2],
           !.nonNull = [n \in Nodes |-> n = "p" /\ c[1]],
           !.resolve = [n \in Nodes |-> CASE n = "p" -> r[1] [] n = "a" -> r[2]
                                          [] n = "b" -> r[3] [] OTHER -> "value"],
           !.isTypeOf = [u \in ObjectTypeNames |-> IF u = "P" THEN i ELSE "none"]] :
        c \in BOOLEAN \X BOOLEAN,
        r \in {"value", "promiseValue"} \X {"value", "promiseValue", "promiseReject"}
              \X {"value", "throw", "promiseValue", "promiseReject"},
        i \in IsTypeOfs }

\* { p { a b } x } with an x whose resolver returns undefined, an Error
\* instance, or a value its scalar serializes to null or to undefined.
LeafRequests ==
    { [BaseArgs EXCEPT !.nonNull = [n \in Nodes |-> n = "x" /\ c],
           !.resolve = [n \in Nodes |-> IF n = "x" THEN r ELSE "value"]] :
        c \in BOOLEAN,
        r \in {"undefined", "error", "toNull", "toUndefined"} }

\* The documents that schedule a payload late, { p { a ... @defer { b } } x }
\* with a promised p and { x l @stream(initialCount: 1) } over an async
\* iterator, on `x: String!` with an x whose promise rejects.
AbandonedRequests ==
    { [BaseArgs EXCEPT !.subDefer = TRUE,
           !.nonNull = [n \in Nodes |-> n = "x"],
           !.resolve = [n \in Nodes |-> CASE n = "p" -> "promiseValue"
                                          [] n = "x" -> "promiseReject"
                                          [] OTHER -> "value"]],
      [BaseArgs EXCEPT !.selection = << "x", "l" >>,
           !.nonNull = [n \in Nodes |-> n = "x"],
           !.resolve = [n \in Nodes |-> IF n = "x" THEN "promiseReject" ELSE "value"],
           !.source = "asyncIterator", !.items = << "ok", "ok" >>, !.stream = 1] }

\* { p { a b } u x } as query A and as mutation B, u being a field no type of
\* the schema declares, with an x that returns a value, null or undefined.
UnknownFieldRequests ==
    { [BaseArgs EXCEPT !.operationName = o, !.selection = << "p", "u", "x" >>,
           !.resolve = [n \in Nodes |-> CASE n = "p" -> r[1] [] n = "x" -> r[2]
                                          [] OTHER -> "value"]] :
        o \in {"A", "B"},
        r \in {"value", "promiseValue"} \X {"value", "null", "undefined", "promiseNull"} }

Requests ==
    LeafRequests \cup ContextRequests \cup ObjectRequests \cup ListRequests \cup DeferRequests
        \cup StreamRequests \cup ResolveTypeRequests \cup IsTypeOfRequests
        \cup SubDeferRequests \cup AbandonedRequests \cup UnknownFieldRequests

-----------------------------------------------------------------------------
(* The state machine *)

Cur == [errors |-> errors, invoked |-> invoked, fld |-> fld, agg |-> agg,
        serial |-> serial, iter |-> iter, dispatcher |-> dispatcher,
        prom |-> prom, opResult |-> opResult, consumer |-> consumer,
        subPatchErrors |-> subPatchErrors, typing |-> typing]

Assign(S) ==
    /\ errors' = S.errors
    /\ invoked' = S.invoked
    /\ fld' = S.fld
    /\ agg' = S.agg
    /\ serial' = S.serial
    /\ iter' = S.iter
    /\ dispatcher' = S.dispatcher
    /\ consumer' = S.consumer
    /\ subPatchErrors' = S.subPatchErrors
    /\ typing' = S.typing
    /\ prom' = S.prom
    /\ opResult' = S.opResult

\* The state after a task: its microtasks are drained.
Apply(S) == Assign(raceSettled(settlePayloads(drainList(S))))

Deliver(result) ==
    /\ Apply(result.S)
    /\ ret' = result.ret

DeliverSync(result) ==
    /\ Deliver(result)
    /\ syncResult' = result.outcome

\* The promises and the bookkeeping of a call that has not run yet.
NewCall ==
    [prom |-> [st |-> "none", value |-> RetNone],
     opResult |-> [st |-> "none", err |-> NoError],
     invoked |-> <<>>,
     fld |-> [n \in Nodes |-> [st |-> "idle", val |-> NoValue, err |-> NoError,
                               path |-> NoPath, errs |-> 0]],
     agg |-> [g \in Aggs |-> [st |-> "unused", results |-> <<>>, val |-> NoValue,
                              err |-> NoError]],
     serial |-> [st |-> "idle", idx |-> 0, fields |-> <<>>, path |-> NoPath,
                 results |-> <<>>],
     iter |-> [pull |-> "none", pulls |-> 0, index |-> 0, completedResults |-> <<>>,
               resolved |-> FALSE, queued |-> FALSE, mode |-> "inline", payload |-> 0,
               n |-> "none", path |-> NoPath, errs |-> 0, itemType |-> Scalar("none")],
     consumer |-> [calls |-> <<>>, received |-> <<>>, overlapped |-> FALSE,
                   spliced |-> <<>>],
     subPatchErrors |-> <<>>,
     typing |-> [wait |-> "none", type |-> "none", value |-> RuntimeUndefined,
                 checked |-> <<>>, runtimeType |-> NoRuntimeType]]

\* The state before the caller has called anything.
InitWith(requests, mode) ==
    /\ args \in requests
    /\ entry = "none"
    /\ ret = RetNone
    /\ syncResult = "none"
    /\ prom = NewCall.prom
    /\ opResult = NewCall.opResult
    /\ errors = <<>>
    /\ invoked = NewCall.invoked
    /\ fld = NewCall.fld
    /\ agg = NewCall.agg
    /\ serial = NewCall.serial
    /\ iter = NewCall.iter
    /\ dispatcher = NewDispatcher
    /\ consumer = NewCall.consumer
    /\ subPatchErrors = NewCall.subPatchErrors
    /\ typing = NewCall.typing
    /\ run = [mode |-> mode, schedule |-> <<>>, first |-> NoValue]

Init == InitWith(Requests, "once")

\* The caller that executes twice notes what it did, in order.
Logged(step) ==
    IF run.mode = "twice" THEN [run EXCEPT !.schedule = Append(@, step)] ELSE run

\* The caller calls execute(args).
Execute ==
    /\ entry = "none"
    /\ Deliver(execute(Cur))
    /\ entry' = "execute"
    /\ run' = Logged("execute")
    /\ UNCHANGED << args, syncResult >>

\* The caller calls executeSync(args).
ExecuteSync ==
    /\ entry = "none"
    /\ DeliverSync(executeSync(Cur))
    /\ entry' = "executeSync"
    /\ run' = Logged("executeSync")
    /\ UNCHANGED args

\* The promise the resolver of field n returned settles.
ResolverSettles(n) ==
    /\ fld[n].st = "resolving"
    /\ Apply(resolverSettled(Cur, n))
    /\ run' = Logged(n)
    /\ UNCHANGED << args, entry, ret, syncResult >>

\* The pending pull of the async iterator settles.
IteratorNextSettles ==
    /\ iter.pull = "pending"
    /\ Apply(IF iter.mode = "stream" THEN streamNextSettled(Cur)
             ELSE iteratorNextSettled(Cur))
    /\ run' = Logged("pull")
    /\ UNCHANGED << args, entry, ret, syncResult >>

\* The promise of the runtime type of p's value settles.
RuntimeTypeSettles ==
    /\ typing.wait = "runtimeType"
    /\ Apply(runtimeTypeSettled(Cur))
    /\ run' = Logged("runtimeType")
    /\ UNCHANGED << args, entry, ret, syncResult >>

\* The promise an isTypeOf predicate returned for p's value settles.
IsTypeOfSettles ==
    /\ typing.wait = "isTypeOf"
    /\ Apply(isTypeOfSettled(Cur))
    /\ run' = Logged("isTypeOf")
    /\ UNCHANGED << args, entry, ret, syncResult >>

\* The consumer has seen the end of the sequence.
SawDone ==
    \E i \in DOMAIN consumer.received : consumer.received[i].result.done

\* The caller holds the async iterable and calls next() on it.
NextCalled ==
    /\ entry = "execute"
    /\ ret.k = "iterable" \/ (prom.st = "fulfilled" /\ prom.value.k = "iterable")
    /\ Len(consumer.calls) < MaxPending
    /\ ~SawDone
    /\ Apply(next([Cur EXCEPT !.consumer.overlapped = @ \/ Len(consumer.calls) > 0]))
    /\ run' = Logged("next")
    /\ UNCHANGED << args, entry, ret, syncResult >>

Next ==
    \/ Execute
    \/ ExecuteSync
    \/ \E n \in Nodes : ResolverSettles(n)
    \/ IteratorNextSettles
    \/ RuntimeTypeSettles
    \/ IsTypeOfSettles
    \/ NextCalled

Spec == Init /\ [][Next]_vars

-----------------------------------------------------------------------------
(* What the caller holds *)

\* The caller holds a response: execute returned one, or the promise it
\* returned is fulfilled.
Delivered == ret.k \in {"response", "iterable"} \/ prom.st = "fulfilled"

\* The caller holds the dispatcher's async iterable.
DeliveredIterable ==
    ret.k = "iterable" \/ (prom.st = "fulfilled" /\ prom.value.k = "iterable")

\* The response itself, or the initial result the async iterable holds.
InitialResult ==
    CASE ret.k = "response" -> ret.value
      [] prom.st = "fulfilled" /\ prom.value.k = "response" -> prom.value.value
      [] OTHER -> dispatcher.initialResult

\* A data tree as the caller reads it now: the array of an async-iterator list
\* is the loop's own array.
RECURSIVE View(_)
View(v) ==
    CASE v.t = "listref" -> ListV(iter.completedResults)
      [] v.t = "obj" -> ObjV([i \in 1..Len(v.kv) |-> << v.kv[i][1], View(v.kv[i][2]) >>])
      [] OTHER -> v

HasData == Delivered /\ "data" \in DOMAIN InitialResult
Data == View(InitialResult.data)

Keys(obj) == [i \in 1..Len(obj.kv) |-> obj.kv[i][1]]
Has(obj, key) == \E i \in 1..Len(obj.kv) : obj.kv[i][1] = key
Lookup(obj, key) == obj.kv[CHOOSE i \in 1..Len(obj.kv) : obj.kv[i][1] = key][2]

Range(seq) == {seq[i] : i \in 1..Len(seq)}
IndexOf(seq, e) == CHOOSE i \in 1..Len(seq) : seq[i] = e

\* The request in terms of the document alone.
Operations(a) ==
    {i \in 1..Len(a.document) : a.document[i].kind = "OperationDefinition"}

ContextCannotBeBuilt(a) ==
    \/ Operations(a) = {}
    \/ a.operationName = NoName /\ Cardinality(Operations(a)) > 1
    \/ a.operationName # NoName
         /\ \A i \in Operations(a) : a.document[i].name # a.operationName
    \/ a.badVariables

IsMutation ==
    /\ ~ContextCannotBeBuilt(args)
    /\ \E i \in Operations(args) :
         /\ args.document[i].operation = "mutation"
         /\ args.operationName \in {NoName, args.document[i].name}

\* The fields of the operation: its root fields, their sub-selections and the
\* fields of its deferred fragment.
SubFields(n) == IF n = "p" THEN {"a", "b"} ELSE {}
\* The root fields of the selection that the root type declares.
RootFields == SelectSeq(args.selection, LAMBDA n : n \in Nodes)

OperationFields ==
    Range(RootFields)
      \cup UNION {SubFields(n) : n \in Range(RootFields)}
      \cup (IF args.defer THEN {"d"} ELSE {})

\* No field resolver, isTypeOf or resolveType returns a promise.
AllResolversSynchronous ==
    /\ \A n \in OperationFields : ~IsAsync(args.resolve[n])
    /\ \A t \in DOMAIN args.isTypeOf : ~IsPromised(args.isTypeOf[t])
    /\ ~(args.resolveType.provided /\ args.resolveType.via = "promise")

UsesAsyncIterator == "l" \in OperationFields /\ args.source = "asyncIterator"

\* Nothing the host owns is pending: every resolver promise and every pull
\* that was started has settled.
Quiescent ==
    /\ \A n \in Nodes : fld[n].st # "resolving"
    /\ iter.pull # "pending"
    /\ typing.wait = "none"

-----------------------------------------------------------------------------
(* C1 *)

SyncOutcome ==
    /\ ret.k = "response"
    /\ prom.st = "none"
    /\ entry = "executeSync" => syncResult = "returned"

-----------------------------------------------------------------------------
(* C2 *)

AsyncResolverTookPart ==
    \E i \in 1..Len(invoked) : IsAsync(args.resolve[invoked[i]])

-----------------------------------------------------------------------------
(* C3 *)

\* C3: the promise execute returns is never rejected; once settled it holds a
\* response with a data key or the async sequence, and a rejection of the root
\* call has become {data: null, errors}.
C3_PromiseNeverRejects ==
    /\ prom.st \in {"none", "pending", "fulfilled"}
    /\ ret.k = "promise" <=> prom.st \in {"pending", "fulfilled"}
    /\ prom.st = "fulfilled" =>
         \/ prom.value.k = "iterable"
         \/ prom.value.k = "response" /\ "data" \in DOMAIN prom.value.value
    /\ (prom.st = "fulfilled" /\ opResult.st = "rejected") =>
         /\ prom.value.k = "response"
         /\ DOMAIN prom.value.value = {"errors", "data"}
         /\ prom.value.value.data = Null

C3_Witness ==
    /\ prom.st = "fulfilled"
    /\ opResult.st = "rejected"
    /\ opResult.err.message = "resolver failed"

-----------------------------------------------------------------------------
(* C4 *)

\* C4: once every resolver promise and every pull of the async iterator that
\* the execution started has settled, the promise execute returned is
\* resolved.  (All continuations run within the step of the settlement, so a
\* promise still pending in a quiescent state stays pending for ever.)
C4_SettledMeansResolved ==
    (ret.k = "promise" /\ Quiescent) => prom.st = "fulfilled"

-----------------------------------------------------------------------------
(* C5 *)

NonNullFields == {n \in {"p", "b", "x"} : args.nonNull[n]}

\* The value of field n completed to null, or its resolver failed.
OwnFailure(n) ==
    /\ args.resolve[n] \in {"null", "throw", "promiseNull", "promiseReject"}
    /\ fld[n].st \in {"threw", "rejected"}

FieldPath(n) == IF n \in {"a", "b"} THEN << "p", n >> ELSE << n >>

ErrorsAt(n) == Cardinality({i \in 1..Len(errors) : errors[i].path = FieldPath(n)})

\* The path of the nearest nullable ancestor of a NonNull field, <<>> standing
\* for data itself.
NullableAncestor(n) ==
    IF n = "b" /\ ~args.nonNull["p"] THEN << "p" >> ELSE <<>>

\* The position is null in data, or does not exist because data is.
NullAt(path) ==
    \/ Data = Null
    \/ path = << "p" >> /\ Has(Data, "p") /\ Lookup(Data, "p") = Null

NoNullUnderNonNull(data) ==
    data.t = "obj" =>
        \A i \in 1..Len(data.kv) :
            LET key == data.kv[i][1]
                value == data.kv[i][2]
            IN /\ value = Null => ~args.nonNull[key]
               /\ value.t = "obj" =>
                    \A j \in 1..Len(value.kv) :
                        value.kv[j][2] = Null => ~args.nonNull[value.kv[j][1]]
               /\ (value.t = "list" /\ args.itemNonNull) =>
                    \A j \in 1..Len(value.items) : value.items[j] # Null

-----------------------------------------------------------------------------
(* C6 *)

\* Root field n and its sub-selections have settled.
FullySettled(n) ==
    /\ fld[n].st \in {"returned", "threw", "fulfilled", "rejected"}
    /\ \A c \in SubFields(n) : fld[c].st \notin {"resolving", "completing"}
    /\ (n = "l" => iter.pull # "pending")

\* C6: in a mutation the resolver of a root field is invoked only when the
\* root field before it has fully settled, its sub-selections included, and
\* the results lie under their response keys in collection order.
C6_SerialMutation ==
    IsMutation =>
      /\ \A j \in 2..Len(RootFields) :
           RootFields[j] \in Range(invoked) =>
             /\ RootFields[j - 1] \in Range(invoked)
             /\ IndexOf(invoked, RootFields[j - 1])
                  < IndexOf(invoked, RootFields[j])
             /\ FullySettled(RootFields[j - 1])
      /\ (HasData /\ Data.t = "obj") => Keys(Data) = RootFields

-----------------------------------------------------------------------------
(* C7 *)

\* C7: the keys of every object of a response are in the collection order of
\* its field group, for parallel and for serial execution.
C7_KeyOrder ==
    /\ (HasData /\ Data.t = "obj") =>
         /\ Keys(Data) = RootFields
         /\ \A i \in 1..Len(Data.kv) :
              Data.kv[i][2].t = "obj" =>
                \E T \in (IF args.abstract THEN {"P", "Q"} ELSE {"P"}) :
                  Keys(Data.kv[i][2])
                    = collectSubfields(ObjectType(T), Data.kv[i][1]).fields
    /\ \A k \in DOMAIN dispatcher.subsequentPayloads :
         (/\ dispatcher.subsequentPayloads[k].kind = "fields"
          /\ dispatcher.subsequentPayloads[k].st = "fulfilled") =>
           Keys(dispatcher.subsequentPayloads[k].result.value.data)
             = IF args.subDefer THEN << "b" >> ELSE << "d" >>

\* x was settled before a, and p is still the first key.
C7_Witness ==
    /\ HasData
    /\ Data.t = "obj"
    /\ Keys(Data) = << "p", "x" >>
    /\ Lookup(Data, "p").t = "obj"
    /\ Len(errors) = 2
    /\ errors[1].path = << "x" >>
    /\ errors[2].path = << "p", "a" >>

-----------------------------------------------------------------------------
(* C8 *)

-----------------------------------------------------------------------------
(* C9 *)

Escaped(st) == st \in {"threw", "rejected"}

\* C9: in the step in which an error escapes the root call, thrown or as a
\* rejection, that error is appended to the errors list, and the response is
\* {data: null, errors} with it as the last entry.
C9_TopLevelRecovery ==
    [][ (~Escaped(opResult.st) /\ Escaped(opResult'.st)) =>
          /\ Len(errors') > Len(errors)
          /\ SubSeq(errors', 1, Len(errors)) = errors
          /\ errors'[Len(errors')] = opResult'.err
          /\ Delivered'
          /\ ~DeliveredIterable'
          /\ InitialResult' = [errors |-> errors', data |-> Null] ]_vars

C9_Witness ==
    /\ opResult.st = "rejected"
    /\ prom.st = "fulfilled"
    /\ Len(prom.value.value.errors) = 2
    /\ prom.value.value.errors[2] = opResult.err

-----------------------------------------------------------------------------
(* C10 *)

\* C10: once the main execution has settled, the caller holds the initial
\* shape itself if no payload is pending on the dispatcher, and otherwise the
\* dispatcher's async sequence with the initial shape in it: whenever a
\* payload was scheduled, the caller has a sequence.
C10_SequenceIffPayloads ==
    Delivered =>
      IF hasSubsequentPayloads(dispatcher)
      THEN DeliveredIterable /\ dispatcher.initialResult # NoValue
      ELSE ~DeliveredIterable

-----------------------------------------------------------------------------
(* What the consumer of the async iterable has seen *)

\* The consumer awaited every next() before it called the next one.
Sequential == ~consumer.overlapped

\* The consumer will receive nothing more: it has seen the end, or its call is
\* unanswered while nothing the host owns is pending (every continuation runs
\* in the task of the settlement, so that call stays unanswered for ever).
Stuck == Quiescent /\ Len(consumer.calls) > 0
ConsumerFinished == SawDone \/ Stuck

\* The values the consumer received before the end of the sequence.
Payloads ==
    SelectSeq([i \in DOMAIN consumer.received |-> consumer.received[i].result],
              LAMBDA r : ~r.done)

IsPatch(value) == "path" \in DOMAIN value
Patches == SelectSeq([i \in DOMAIN Payloads |-> Payloads[i].value], IsPatch)
PatchesLabelled(label) ==
    SelectSeq(Patches, LAMBDA v : "label" \in DOMAIN v /\ v.label = label)

IsPrefix(s, t) == Len(s) <= Len(t) /\ s = SubSeq(t, 1, Len(s))

MinOf(a, b) == IF a <= b THEN a ELSE b

-----------------------------------------------------------------------------
(* C11 *)

\* The operation selects l with @stream and its list was completed.
StreamedList ==
    /\ ~ContextCannotBeBuilt(args)
    /\ "l" \in Range(RootFields)
    /\ args.stream # NoStream
    /\ HasData /\ Data.t = "obj" /\ Has(Data, "l") /\ Lookup(Data, "l").t = "list"

\* The paths of the patches the elements from initialCount on are due in.
StreamPaths ==
    LET inlined == MinOf(args.stream, Len(args.items)) IN
    [k \in 1..(Len(args.items) - inlined) |-> << "l", IndexKey(inlined + k - 1) >>]

StreamPathsReceived ==
    LET got == PatchesLabelled("S") IN [k \in DOMAIN got |-> got[k].path]

\* C11: the list of a field with @stream(initialCount: n) has min(n, length)
\* items in the initial data, and the remaining elements reach the consumer
\* one patch each, under the path of their index, in source order, all of
\* them by the time the consumer receives nothing more.
C11_StreamedList ==
    StreamedList =>
      /\ Len(Lookup(Data, "l").items) = MinOf(args.stream, Len(args.items))
      /\ Sequential => IsPrefix(StreamPathsReceived, StreamPaths)
      /\ (Sequential /\ ConsumerFinished) => StreamPathsReceived = StreamPaths

-----------------------------------------------------------------------------
(* C12 *)

\* The operation carries the deferred fragment and its fields were executed.
DeferExecuted ==
    /\ ~ContextCannotBeBuilt(args)
    /\ args.defer
    /\ "d" \in Range(invoked)

\* The consumer cannot receive anything more from this execution: the main
\* execution has settled, nothing the host owns is pending, and the caller
\* holds no async iterable or has read it to its end.
NothingMoreToCome ==
    /\ entry = "execute"
    /\ Delivered
    /\ Quiescent
    /\ ~DeliveredIterable \/ ConsumerFinished

\* C12: the selections of a deferred fragment are absent from the initial
\* data, and they reach the consumer in one patch that carries the path of the
\* object the fragment was spread on (the empty path at the root) and the
\* fragment's label.
C12_DeferredFragment ==
    DeferExecuted =>
      /\ (HasData /\ Data.t = "obj") => ~Has(Data, "d")
      /\ \A i \in DOMAIN PatchesLabelled("D") :
           /\ PatchesLabelled("D")[i].path = <<>>
           /\ PatchesLabelled("D")[i].data.t = "obj"
           /\ Keys(PatchesLabelled("D")[i].data) = << "d" >>
      /\ Sequential => Len(PatchesLabelled("D")) <= 1
      /\ (Sequential /\ NothingMoreToCome) => Len(PatchesLabelled("D")) = 1

-----------------------------------------------------------------------------
(* C13 *)

\* The path lies inside an incremental patch: under the deferred field, or at
\* a list element from initialCount on.
InPatch(path) ==
    /\ Len(path) >= 1
    /\ \/ path[1] = "d"
       \/ /\ path[1] = "l"
          /\ Len(path) = 2
          /\ args.stream # NoStream
          /\ path[2] \in {IndexKey(i) : i \in args.stream..Len(args.items)}

\* The element a patch of the streamed list is about, counted from 1.
ElementOf(patch) ==
    CHOOSE i \in 1..Len(args.items) : IndexKey(i - 1) = patch.path[Len(patch.path)]

\* What the patch carries is the outcome of a failure.
PatchOfFailure(patch) ==
    IF patch.label = "D"
    THEN args.resolve["d"] \in {"throw", "promiseReject"}
    ELSE args.items[ElementOf(patch)] \in {"bad", "err"}

\* C13: a failure inside an incremental patch is recorded in the errors of
\* that patch and nowhere else: the main errors list and the errors of the
\* initial response hold no error located inside a patch, no such error makes
\* the initial data null, and a patch that reports a failure carries it in its
\* own errors.
C13_PatchErrorsScoped ==
    /\ \A i \in DOMAIN errors : ~InPatch(errors[i].path)
    /\ (Delivered /\ "errors" \in DOMAIN InitialResult) =>
         \A i \in DOMAIN InitialResult.errors : ~InPatch(InitialResult.errors[i].path)
    /\ Escaped(opResult.st) => ~InPatch(opResult.err.path)
    /\ \A i \in DOMAIN Patches :
         PatchOfFailure(Patches[i]) =>
           /\ "errors" \in DOMAIN Patches[i]
           /\ \A j \in DOMAIN Patches[i].errors :
                IsPrefix(Patches[i].path, Patches[i].errors[j].path)

-----------------------------------------------------------------------------
(* C14 *)

\* The i-th result the consumer received carries hasNext = b.
HasNextAt(i, b) ==
    /\ ~consumer.received[i].result.done
    /\ consumer.received[i].result.value.hasNext = b

\* The shape of the sequence as far as it was received: the initial result
\* with hasNext: true first, then patches with hasNext: true, then one payload
\* with hasNext: false, then the end.
SequenceShape ==
    LET got == consumer.received IN
    /\ Len(got) >= 1 =>
         /\ ~got[1].result.done
         /\ got[1].result.value = WithHasNext(dispatcher.initialResult, TRUE)
    /\ \A i \in 2..Len(got) :
         IF got[i].result.done
         THEN HasNextAt(i - 1, FALSE)
         ELSE /\ HasNextAt(i - 1, TRUE)
              /\ \/ IsPatch(got[i].result.value)
                 \/ got[i].result.value = [hasNext |-> FALSE]

\* C14: a consumer that awaits each next() receives the initial result with
\* hasNext: true, then the patches; every payload but the last carries
\* hasNext: true, the last carries hasNext: false, the call after it reports
\* the end, and that last payload is reached.  A terminal signal raced while
\* the queue is empty gives a last payload that is {hasNext: false} alone.
C14_PayloadSequence ==
    Sequential =>
      /\ SequenceShape
      /\ (Len(consumer.received) >= 1
            /\ HasNextAt(Len(consumer.received), FALSE)) => Len(consumer.calls) = 0
      /\ ConsumerFinished => SawDone

-----------------------------------------------------------------------------
(* C15 *)

\* C15: the sequence terminates cleanly.  Once every resolver promise and
\* every pull of the async iterator has settled, no next() of a consumer that
\* awaits each call is left unanswered: it was answered with a payload or with
\* the end of the sequence, however the deferred fields and the streamed
\* elements turned out.
C15_TerminatesCleanly ==
    (Sequential /\ Quiescent) => Len(consumer.calls) = 0

-----------------------------------------------------------------------------
(* C16 *)

\* C16: incremental payloads reach the consumer in completion order: of two
\* payloads read from payload promises, the one whose promise settled in an
\* earlier task was received first, whatever the order in which the promises
\* were pushed and however late the consumer called next().
C16_CompletionOrder ==
    Sequential =>
      \A i, j \in DOMAIN consumer.received :
          (/\ i < j
           /\ consumer.received[i].of # 0
           /\ consumer.received[j].of # 0
           /\ ~consumer.received[i].result.done
           /\ ~consumer.received[j].result.done)
              => consumer.received[i].tick <= consumer.received[j].tick

-----------------------------------------------------------------------------
(* C17 *)

\* A response as the caller reads it.
ViewResult(r) == IF "data" \in DOMAIN r THEN [r EXCEPT !.data = View(@)] ELSE r

\* Everything the caller has been given by the call: what execute returned,
\* what its promise settled with, and what next() answered, in order.
Seen ==
    [ret |-> ret.k,
     promise |-> prom.st,
     response |-> IF Delivered /\ ~DeliveredIterable THEN ViewResult(InitialResult)
                  ELSE NoValue,
     unanswered |-> Len(consumer.calls),
     payloads |-> [i \in DOMAIN consumer.received |->
                     IF consumer.received[i].result.done THEN consumer.received[i].result
                     ELSE [done |-> FALSE,
                           value |-> ViewResult(consumer.received[i].result.value)]]]

\* The call is over for the caller: nothing is pending, and a caller that
\* holds the async iterable has read it to its end.
RunOver ==
    /\ entry = "execute"
    /\ Quiescent
    /\ DeliveredIterable => ConsumerFinished

\* The caller calls execute(args) a second time, with the same arguments, once
\* the first call is over.  The resolvers are pure: they return what they
\* returned before, and the list source hands out a new iterator.
ExecuteAgain ==
    /\ run.mode = "twice"
    /\ run.first = NoValue
    /\ RunOver
    /\ Deliver(execute(NewCall @@ Cur))
    /\ run' = [run EXCEPT !.first = [seen |-> Seen, schedule |-> run.schedule],
                          !.schedule = << "execute" >>]
    /\ UNCHANGED << args, entry, syncResult >>

\* The requests of the caller that executes twice: the query on objects, the
\* deferred fragment with every outcome, the streams of at most one element,
\* and the union whose resolveType promises its answer.
TwiceRequests ==
    {a \in ObjectRequests : a.operationName = "A" /\ a.resolve.b = "value"}
        \cup DeferRequests
        \cup {a \in StreamRequests : Len(a.items) <= 1}
        \cup {a \in ResolveTypeRequests :
                 /\ a.resolveType.via = "promise"
                 /\ a.resolveType.value \in {RuntimeName("P"), RuntimeName("R")}
                 /\ a.resolve.p = "value"}

InitTwice == InitWith(TwiceRequests, "twice")

NextTwice ==
    \/ Execute
    \/ ExecuteSync
    \/ \E n \in Nodes : ResolverSettles(n)
    \/ IteratorNextSettles
    \/ RuntimeTypeSettles
    \/ IsTypeOfSettles
    \/ NextCalled
    \/ ExecuteAgain

SpecTwice == InitTwice /\ [][NextTwice]_vars

BothOver == run.first # NoValue /\ RunOver

-----------------------------------------------------------------------------
(* C18 *)

\* The values next() answered with that were read from payload promise id.
AnsweredFrom(id) ==
    {i \in DOMAIN consumer.received :
        consumer.received[i].of = id /\ ~consumer.received[i].result.done}

\* C18: every race of next() takes out of the queue exactly the promise that
\* settled first among those it raced, and no other entry, and the payload it
\* then emits carries hasNext = (the queue is non-empty after that removal).
C18_RaceRemovesWinner ==
    \A k \in DOMAIN consumer.spliced :
        LET e == consumer.spliced[k] IN
        /\ e.removed = e.won
        /\ e.wonTick = e.minTick
        /\ \A i \in AnsweredFrom(e.won) :
               consumer.received[i].result.value.hasNext = (e.left > 0)

-----------------------------------------------------------------------------
(* C19 *)

\* The error lists that exist: 0 is exeContext.errors, k > 0 the list of the
\* payload with identity k that is in the dispatcher's queue.
ErrorLists(S) ==
    {0} \cup {S.dispatcher.subsequentPayloads[k].id :
                 k \in DOMAIN S.dispatcher.subsequentPayloads}

ErrorList(S, errs) ==
    IF errs = 0 THEN S.errors
    ELSE LET q == S.dispatcher.subsequentPayloads
         IN q[CHOOSE k \in DOMAIN q : q[k].id = errs].errors

\* Located errors and return types to call handleFieldError with.
SomeErrors ==
    { locatedError(Error("resolver failed", "x"), "x", << "x" >>),
      locatedError(Error("cannot represent value", "Int"), "l", << "l", "0" >>) }

SomeTypes ==
    { Scalar("String"), ListOf(Scalar("Int")), ObjectType("P"),
      NonNull(Scalar("String")), NonNull(ListOf(Scalar("Int"))), NonNull(ObjectType("P")) }

\* What handleFieldError(error, returnType, errors) does in state S.
FrameOf(S, error, returnType, errs, o) ==
    IF isNonNullType(returnType)
    THEN /\ o.r.k = "throw"
         /\ o.r.e = error
         /\ o.S = S
    ELSE /\ o.r.k = "val"
         /\ o.r.v = Null
         /\ ErrorList(o.S, errs) = Append(ErrorList(S, errs), error)
         /\ ErrorLists(o.S) = ErrorLists(S)
         /\ \A other \in ErrorLists(S) \ {errs} : ErrorList(o.S, other) = ErrorList(S, other)
         /\ [o.S EXCEPT !.errors = <<>>, !.dispatcher = NewDispatcher]
              = [S EXCEPT !.errors = <<>>, !.dispatcher = NewDispatcher]
         /\ Len(o.S.dispatcher.subsequentPayloads) = Len(S.dispatcher.subsequentPayloads)
         /\ \A k \in DOMAIN S.dispatcher.subsequentPayloads :
                [o.S.dispatcher.subsequentPayloads[k] EXCEPT !.errors = <<>>]
                  = [S.dispatcher.subsequentPayloads[k] EXCEPT !.errors = <<>>]

\* C19: handleFieldError, given a located error and the field's return type:
\* under NonNull it rethrows that error and changes no list; otherwise it
\* appends that one error to the list it was given, yields null, and changes
\* no other list and nothing else.
C19_HandleFieldError ==
    \A error \in SomeErrors, returnType \in SomeTypes, errs \in ErrorLists(Cur) :
        FrameOf(Cur, error, returnType, errs,
                handleFieldError(Cur, error, returnType, errs))

\* handleFieldError has logged an error in exeContext.errors and one in the
\* list of a payload, and another payload is queued: three lists exist.
C19_Witness ==
    /\ Len(errors) > 0
    /\ \E k \in DOMAIN dispatcher.subsequentPayloads :
           Len(dispatcher.subsequentPayloads[k].errors) > 0
    /\ Len(dispatcher.subsequentPayloads) > 1

-----------------------------------------------------------------------------
(* C20 *)

\* The operation selects l without @stream and the resolver of l has run: its
\* list is completed inline.
ListCompleted ==
    /\ ~ContextCannotBeBuilt(args)
    /\ "l" \in Range(RootFields)
    /\ args.stream = NoStream
    /\ "l" \in Range(invoked)

\* The element at position j (from 1) cannot be completed: it is an Error, a
\* value Int cannot represent, a pull that rejects, or null under NonNull.
ElementFails(j) ==
    \/ args.items[j] \in {"bad", "err"}
    \/ args.items[j] = "null" /\ args.itemNonNull

\* The number of elements the source hands out: an async iterator ends with
\* the pull that rejects.
SourceLength ==
    IF args.source = "asyncIterator" /\ \E j \in DOMAIN args.items : args.items[j] = "err"
    THEN Min({j \in DOMAIN args.items : args.items[j] = "err"})
    ELSE Len(args.items)

FailingElements == {j \in 1..SourceLength : ElementFails(j)}

ElementErrors(j) ==
    Cardinality({i \in 1..Len(errors) : errors[i].path = << "l", IndexKey(j - 1) >>})

\* The list with null in the slots of the failing elements only.
ListWithNulls ==
    ListV([j \in 1..SourceLength |-> IF args.items[j] = "ok" THEN Leaf("i") ELSE Null])

DataHasList == HasData /\ Data.t = "obj" /\ Has(Data, "l")

\* C20: in list completion, a failing element of nullable type gives null in
\* its slot only and one error under its path, the other elements and the
\* list staying as they are, for arrays and for async iterators; a failing
\* element of NonNull type makes the list field fail: the list is null in the
\* data that is delivered, with the one error of the first failing element.
C20_ElementErrors ==
    ListCompleted =>
      IF args.itemNonNull /\ FailingElements # {}
      THEN /\ (Quiescent /\ entry = "execute") => HasData
           /\ (HasData /\ Data.t = "obj") => (Has(Data, "l") /\ Lookup(Data, "l") = Null)
           /\ Quiescent =>
                \A j \in 1..SourceLength :
                    ElementErrors(j) = IF j = Min(FailingElements) THEN 1 ELSE 0
      ELSE /\ (HasData /\ Data.t = "obj") =>
                (Has(Data, "l") /\ Lookup(Data, "l") = ListWithNulls)
           /\ Quiescent =>
                \A j \in 1..SourceLength :
                    ElementErrors(j) = IF ElementFails(j) THEN 1 ELSE 0

-----------------------------------------------------------------------------
(* C21 *)

\* The list of l comes from an async iterator and its resolver has run.
AsyncListStarted ==
    /\ ~ContextCannotBeBuilt(args)
    /\ "l" \in Range(RootFields)
    /\ args.source = "asyncIterator"
    /\ "l" \in Range(invoked)

\* The number of elements completed inline: all of them, or initialCount.
InlineCount ==
    IF args.stream = NoStream THEN Len(args.items) ELSE MinOf(args.stream, Len(args.items))

\* The elements of the inline portion that cannot be completed.
InlineFailures == {j \in 1..InlineCount : ElementFails(j)}

\* The pull of the element at position j (from 1) has settled.
PullSettled(j) == iter.pulls > j \/ (iter.pulls = j /\ iter.pull # "pending")

\* C21: when the element at index i of an async-iterator list fails inline,
\* the failure ends the inline portion: the list is the elements 0..i-1
\* followed by null, the list's promise is resolved when the element is
\* nullable, no further element is pulled from the iterator or appended, and
\* the iterator is not handed to the dispatcher.
C21_FailureEndsInline ==
    (AsyncListStarted /\ InlineFailures # {} /\ PullSettled(Min(InlineFailures))) =>
        LET i == Min(InlineFailures) IN
        /\ iter.pulls = i
        /\ iter.completedResults =
               [j \in 1..i |-> IF j < i /\ args.items[j] = "ok" THEN Leaf("i") ELSE Null]
        /\ iter.mode = "inline"
        /\ ~args.itemNonNull => (iter.resolved \/ iter.queued)

-----------------------------------------------------------------------------
(* C22 *)

\* The payload promises of addAsyncIteratorValue that are in the queue.
PullPayloads ==
    {k \in DOMAIN dispatcher.subsequentPayloads :
        dispatcher.subsequentPayloads[k].kind = "asyncIteratorValue"}

\* What the promise of the pull at index j settled with, when it has settled:
\* the terminal signal after the last element, and otherwise the patch of the
\* element the iterator handed out at that index, under the path of that
\* index.  (A pull that rejects hands out no element.)
PullBecamePatch(payload, j) ==
    payload.st # "pending" =>
        IF j + 1 > Len(args.items)
        THEN payload.st = "fulfilled" /\ payload.result.done
        ELSE args.items[j + 1] # "err" =>
             /\ payload.st = "fulfilled"
             /\ ~payload.result.done
             /\ payload.result.value.path = << "l", IndexKey(j) >>
             /\ payload.result.value.data =
                    IF args.items[j + 1] = "ok" THEN Leaf("i") ELSE Null

\* The pulls start at initialCount and the k-th of them has index
\* initialCount + k: the promise of each pull is that of the index of the pull.
PullsInOrder ==
    /\ \A k \in PullPayloads :
           LET payload == dispatcher.subsequentPayloads[k] IN
           \E j \in args.stream..MaxItems :
               /\ pathToArray(payload.path) = << "l", IndexKey(j) >>
               /\ PullBecamePatch(payload, j)
    /\ iter.mode = "stream" =>
           /\ iter.index = iter.pulls - 1
           /\ iter.index >= args.stream

\* A pull of the dispatcher that hands out an element settles in this step.
ElementPulled ==
    /\ iter.mode = "stream"
    /\ iter.pull = "pending"
    /\ iter' # iter
    /\ iter.pulls <= Len(args.items)
    /\ args.items[iter.pulls] # "err"

\* That pull has scheduled the next one: its promise is pushed and pending
\* in the state in which the payload of the element has settled.
NextPullScheduled ==
    /\ iter'.pull = "pending"
    /\ iter'.pulls = iter.pulls + 1
    /\ iter'.index = iter.index + 1
    /\ dispatcher'.created = dispatcher.created + 1
    /\ iter'.payload = dispatcher'.created
    /\ \A k \in DOMAIN dispatcher'.subsequentPayloads :
           LET payload == dispatcher'.subsequentPayloads[k] IN
           /\ payload.id = iter'.payload => payload.st = "pending"
           /\ payload.id = iter.payload => payload.st # "pending"

\* The iterator has reported done, or a pull of it was rejected.
PullingOver == iter.mode = "stream" /\ iter.pull = "done"

NoFurtherPull ==
    /\ iter'.pull = "done"
    /\ iter'.pulls = iter.pulls
    /\ dispatcher'.created = dispatcher.created

\* C22: addAsyncIteratorValue pulls the iterator from startIndex on; every
\* pull that hands out an element schedules the next pull before its own
\* payload settles; the element of the k-th pull becomes a patch of its own
\* under the path [..., startIndex + k]; and once the iterator has reported
\* done no further pull is scheduled.
C22_PipelinedPulls ==
    /\ []PullsInOrder
    /\ [][(ElementPulled => NextPullScheduled) /\ (PullingOver => NoFurtherPull)]_vars

-----------------------------------------------------------------------------
(* C23 *)

\* The possible types of U, in the order of getPossibleTypes, whose isTypeOf
\* is true, at once or through a promise.
TrueTypes ==
    {i \in DOMAIN getPossibleTypes(AbstractType("U")) :
        args.isTypeOf[getPossibleTypes(AbstractType("U"))[i]] \in {"true", "promiseTrue"}}

\* What the default resolver is to answer.
DefaultRuntimeType ==
    IF args.typename # NoName THEN RuntimeName(args.typename)
    ELSE IF TrueTypes = {} THEN RuntimeUndefined
    ELSE RuntimeName(getPossibleTypes(AbstractType("U"))[Min(TrueTypes)])

\* C23: the runtime type of an abstract value is the answer of the abstract
\* type's resolveType when there is one, and otherwise the value's __typename
\* when it is a string, and otherwise the first possible type, in the order of
\* getPossibleTypes, whose isTypeOf is true, whether the isTypeOf results are
\* promises or not.
C23_RuntimeType ==
    typing.runtimeType # NoRuntimeType =>
        typing.runtimeType = IF args.resolveType.provided THEN args.resolveType.value
                             ELSE DefaultRuntimeType

-----------------------------------------------------------------------------
(* C24 *)

\* The types of the schema and the possible types of U, as the schema
\* declares them.
SchemaTypeNames == {"P", "Q", "R", "U", "String", "Int"}
UnionMembers == {"P", "Q"}

\* The answer of the type resolver is a string that names a type of the
\* schema, an Object type, that is a possible type of U.
ValidRuntimeType(runtimeType) ==
    /\ runtimeType.t = "string"
    /\ runtimeType.v \in SchemaTypeNames
    /\ runtimeType.v \in ObjectTypeNames
    /\ runtimeType.v \in UnionMembers

RuntimeTypeKnown == typing.runtimeType # NoRuntimeType

\* An error located at p is recorded.
FieldFailed(n) ==
    \E i \in DOMAIN errors : errors[i].located /\ errors[i].path = << n >>

\* C24: the answer of the type resolver, returned or promised, is accepted only
\* if it is a string naming an Object type of the schema that is a possible
\* type of the abstract type.  Any other answer fails the field, which is null
\* when it is nullable and takes the whole data with it when it is NonNull,
\* and no field of the value's sub-selection is executed; an answer that is
\* accepted lets the completion go on with the Object type.
C24_RuntimeTypeValidated ==
    /\ (RuntimeTypeKnown /\ ~ValidRuntimeType(typing.runtimeType)) =>
         /\ FieldFailed("p")
         /\ "a" \notin Range(invoked)
         /\ "b" \notin Range(invoked)
         /\ dispatcher.created = 0
         /\ HasData =>
              IF args.nonNull["p"] THEN Data.t = "null"
              ELSE Data.t = "obj" /\ Lookup(Data, "p").t = "null"
    /\ (/\ RuntimeTypeKnown
        /\ ValidRuntimeType(typing.runtimeType)
        /\ args.isTypeOf[typing.runtimeType.v] \in {"none", "true"}) =>
         /\ ~FieldFailed("p")
         /\ "a" \in Range(invoked)

\* U.resolveType promised the name of an Object type that is no member of U:
\* p is null and nothing below it ran.
C24_Witness ==
    /\ args.resolveType.provided
    /\ args.resolveType.via = "promise"
    /\ typing.runtimeType = RuntimeName("R")
    /\ ~args.nonNull["p"]
    /\ HasData
    /\ Lookup(Data, "p").t = "null"
    /\ FieldFailed("p")
    /\ invoked = << "p", "x" >>

-----------------------------------------------------------------------------
(* C25 *)

\* The Object type p's value is completed as, once completeObjectValue has been
\* called for it and the type has an isTypeOf: the accepted runtime type of U,
\* or P.
CompletedAs ==
    IF args.abstract
    THEN IF RuntimeTypeKnown /\ ValidRuntimeType(typing.runtimeType)
         THEN typing.runtimeType.v ELSE "none"
    ELSE IF "P" \in Range(typing.checked) THEN "P" ELSE "none"

\* isTypeOf of that type has answered, at once or through its promise.
IsTypeOfAnswered(answers) ==
    /\ CompletedAs # "none"
    /\ args.isTypeOf[CompletedAs] \in answers
    /\ typing.wait # "isTypeOf"

NothingBelowRan ==
    /\ "a" \notin Range(invoked)
    /\ "b" \notin Range(invoked)
    /\ dispatcher.created = 0

C25_Failed ==
    /\ FieldFailed("p")
    /\ NothingBelowRan
    /\ HasData =>
         IF args.nonNull["p"] THEN Data.t = "null"
         ELSE Data.t = "obj" /\ Lookup(Data, "p").t = "null"

\* C25: the isTypeOf of an Object type is asked before the subfields of the
\* value are collected: while its promise is pending nothing below the value
\* has run, and a subfield runs only after it answered true.  When it answers
\* false, at once or through its promise, the field fails (null, or the error
\* bubbles when it is NonNull), no resolver of a subfield is invoked and no
\* payload of a deferred fragment of the sub-selection reaches the dispatcher.
C25_IsTypeOf ==
    /\ typing.wait = "isTypeOf" => NothingBelowRan
    /\ IsTypeOfAnswered({"false", "promiseFalse"}) => C25_Failed
    /\ (CompletedAs # "none" /\ args.isTypeOf[CompletedAs] # "none"
          /\ "a" \in Range(invoked)) =>
         /\ IsTypeOfAnswered({"true", "promiseTrue"})
         /\ CompletedAs \in Range(typing.checked)
    /\ IsTypeOfAnswered({"true", "promiseTrue"}) =>
         /\ "a" \in Range(invoked)
         /\ args.subDefer => dispatcher.created = 1

\* P.isTypeOf promised false for the value of `p: P!` whose sub-selection
\* defers b: the data is null, neither a nor b ran and no payload exists.
C25_Witness ==
    /\ args.subDefer
    /\ args.nonNull["p"]
    /\ args.isTypeOf["P"] = "promiseFalse"
    /\ typing.checked = << "P" >>
    /\ typing.wait = "none"
    /\ HasData
    /\ Data.t = "null"
    /\ FieldFailed("p")
    /\ invoked = << "p", "x" >>
    /\ dispatcher.created = 0

-----------------------------------------------------------------------------
(* C26 *)

\* Return types and raw values to call completeValue with.  Lists and objects
\* are paired with the raw values that end the completion before their
\* elements or fields are looked at.
SomeReturnTypes ==
    { Scalar("String"), ListOf(Scalar("Int")), ObjectType("P"), AbstractType("U"),
      NonNull(Scalar("String")), NonNull(ListOf(Scalar("Int"))), NonNull(ObjectType("P")),
      NonNull(AbstractType("U")) }

EarlyRaws ==
    { RawNull, RawUndefined, RawErrorInstance(Error("resolver returned an error", "x")) }

LeafRaws == { RawLeaf("x"), RawLeaf("bad"), RawLeaf("toNull"), RawLeaf("toUndefined") }

CompletionInputs ==
    (SomeReturnTypes \X EarlyRaws)
        \cup ({Scalar("String"), NonNull(Scalar("String"))} \X LeafRaws)

\* What the completion of raw against returnType is to give.
Expected(returnType, raw) ==
    CASE raw.t = "error" -> RThrow(raw.e)
      [] raw.t \in {"null", "undefined"} ->
           IF isNonNullType(returnType)
           THEN RThrow(Error("Cannot return null for non-nullable field", "x"))
           ELSE RVal(Null)
      [] raw.v \in {"toNull", "toUndefined"} ->
           RThrow(Error("Expected serialize to return non-nullable value", "leaf"))
      [] raw.v = "bad" -> RThrow(Error("cannot represent value", "String"))
      [] OTHER -> RVal(Leaf(raw.v))

CompletesAsExpected(S, returnType, raw, o) ==
    /\ o.r = Expected(returnType, raw)
    /\ o.S = S

\* The field x of the executed operation, whose resolver returned what
\* ReturnedValue says, has failed or is null as its completion requires.
XCompleted ==
    (/\ "x" \in Range(invoked)
     /\ args.resolve["x"] \in {"null", "undefined", "error", "toNull", "toUndefined"}
     /\ HasData) =>
        /\ args.resolve["x"] \in {"null", "undefined"} /\ ~args.nonNull["x"]
             <=> ~FieldFailed("x")
        /\ IF args.nonNull["x"] THEN Data.t = "null"
           ELSE Data.t = "obj" /\ Lookup(Data, "x").t = "null"

-----------------------------------------------------------------------------
(* C27 *)

\* value is the patch of a payload pushed with this label, path and list of
\* errors.
PatchShape(value, label, path, errs) ==
    /\ {"data", "path"} \subseteq DOMAIN value
    /\ DOMAIN value \subseteq {"data", "path", "label", "errors"}
    /\ value.path = IF path = NoPath THEN <<>> ELSE pathToArray(path)
    /\ "label" \in DOMAIN value <=> label # NoName
    /\ "label" \in DOMAIN value => value.label = label
    /\ "errors" \in DOMAIN value <=> Len(errs) > 0
    /\ "errors" \in DOMAIN value => value.errors = errs

\* Arguments to call createPatchResult with.
SomePatchArguments ==
    {Null, ObjV(<< << "d", Leaf("d") >> >>)}
        \X {NoName, "D"}
        \X {NoPath, addPath(NoPath, "p"), addPath(addPath(NoPath, "l"), IndexKey(1))}
        \X {<<>>, << locatedError(Error("resolver failed", "b"), "b", << "p", "b" >>) >>}

\* The patches the consumer received, with the payload promise they came from.
EmittedPatches ==
    {i \in DOMAIN consumer.received :
        /\ ~consumer.received[i].result.done
        /\ consumer.received[i].of > 0
        /\ DOMAIN consumer.received[i].result.value # {"hasNext"}}

EmittedShape(value) ==
    /\ {"data", "path", "hasNext"} \subseteq DOMAIN value
    /\ DOMAIN value \subseteq {"data", "path", "hasNext", "label", "errors"}
    /\ "label" \in DOMAIN value <=> args.labelled
    /\ "errors" \in DOMAIN value => Len(value.errors) > 0
    /\ IF value.data.t = "obj"
       THEN value.path = IF args.subDefer THEN << "p" >> ELSE <<>>
       ELSE Len(value.path) = 2 /\ value.path[1] = "l"

\* C27: a patch has the keys path and data, label when the payload was given
\* one and errors when the payload's own list of errors is not empty once its
\* data is there; path is the linearized path, [] when none was given.  The
\* dispatcher emits it with hasNext added.
C27_PatchShape ==
    /\ \A a \in SomePatchArguments :
           PatchShape(createPatchResult(a[1], a[2], a[3], a[4]), a[2], a[3], a[4])
    /\ \A k \in DOMAIN dispatcher.subsequentPayloads :
           LET payload == dispatcher.subsequentPayloads[k] IN
           (payload.st = "fulfilled" /\ ~payload.result.done) =>
               PatchShape(payload.result.value, payload.label, payload.path,
                          payload.errors)
    /\ \A i \in EmittedPatches : EmittedShape(consumer.received[i].result.value)

\* The consumer received the patch of an unlabelled deferred fragment below p
\* whose field b failed: it has errors and no label.
C27_Witness ==
    /\ args.subDefer
    /\ ~args.labelled
    /\ \E i \in EmittedPatches :
           /\ DOMAIN consumer.received[i].result.value
                = {"data", "path", "errors", "hasNext"}
           /\ consumer.received[i].result.value.path = << "p" >>
           /\ ~consumer.received[i].result.value.hasNext

-----------------------------------------------------------------------------
(* C28 *)

\* The initial response the caller holds of an execution that got past
\* buildExecutionContext.
HoldsInitial == Delivered /\ ~ContextCannotBeBuilt(args)

\* Data and error lists to call buildResponse with.
SomeResponseArguments ==
    {Null, ObjV(<< << "x", Leaf("x") >> >>)}
        \X {<<>>, << locatedError(Error("resolver failed", "x"), "x", << "x" >>) >>}

ResponseShape(response, data, errs) ==
    /\ DOMAIN response = IF Len(errs) = 0 THEN {"data"} ELSE {"errors", "data"}
    /\ response.data = data
    /\ Len(errs) > 0 => response.errors = errs

\* The initial response has data, and errors only with what exeContext.errors
\* held when it was built.
InitialShape ==
    HoldsInitial =>
        /\ "data" \in DOMAIN InitialResult
        /\ DOMAIN InitialResult \subseteq {"errors", "data"}
        /\ "errors" \in DOMAIN InitialResult =>
             /\ Len(InitialResult.errors) > 0
             /\ IsPrefix(InitialResult.errors, errors)

\* The task in which the response is built: it has errors exactly when
\* exeContext.errors is not empty.
ResponseBuilt ==
    (~HoldsInitial /\ HoldsInitial') =>
        /\ "errors" \in DOMAIN InitialResult' <=> Len(errors') > 0
        /\ "errors" \in DOMAIN InitialResult' => InitialResult'.errors = errors'

\* C28: every initial response of an execution that started has data, and has
\* errors exactly when the list of errors of the main execution is not empty
\* when the response is built: {data} or {errors, data}.
C28_InitialShape ==
    /\ [](\A a \in SomeResponseArguments :
              ResponseShape(buildResponse(a[1], a[2]), a[1], a[2]))
    /\ []InitialShape
    /\ [][ResponseBuilt]_vars

\* A response with data and one error, and one with data alone.
C28_Witness ==
    /\ HoldsInitial
    /\ DOMAIN InitialResult = {"errors", "data"}
    /\ InitialResult.data.t = "obj"
    /\ Len(InitialResult.errors) = 1
    /\ args.resolve["x"] = "promiseReject"

-----------------------------------------------------------------------------
(* C29 *)

\* The request selects the mutation and the schema has no mutation type.
NoRootType ==
    /\ ~ContextCannotBeBuilt(args)
    /\ IsMutation
    /\ ~args.mutationType

\* C29: when the schema has no root type for the kind of the operation,
\* executeOperation throws an error that carries the operation node before it
\* collects or executes a field: no resolver is invoked, nothing reaches the
\* dispatcher, and execute returns {data: null, errors: [that error]} at once.
C29_NoRootType ==
    (entry # "none" /\ NoRootType) =>
        /\ invoked = <<>>
        /\ dispatcher.created = 0
        /\ \A n \in Nodes : fld[n].st = "idle"
        /\ ret.k = "response"
        /\ DOMAIN ret.value = {"errors", "data"}
        /\ ret.value.data = Null
        /\ Len(ret.value.errors) = 1
        /\ ret.value.errors[1].message = "Schema is not configured to execute operation."
        /\ ret.value.errors[1].src = "operation"
        /\ ret.value.errors[1].path = <<>>
        /\ errors = ret.value.errors

\* executeSync was called for mutation B on a schema without a mutation type.
C29_Witness ==
    /\ entry = "executeSync"
    /\ NoRootType
    /\ args.operationName = "B"
    /\ syncResult = "returned"
    /\ ret.value.data = Null
    /\ invoked = <<>>

-----------------------------------------------------------------------------
(* C30 *)

\* The resolvers of these fields that were invoked, in invocation order.
InvokedOf(fields) == SelectSeq(invoked, LAMBDA n : n \in Range(fields))

\* The fields executeFields was given for the sub-selection of p: those of the
\* Object type the value is completed as.
SubSelection ==
    collectSubfields(ObjectType(IF args.abstract THEN typing.runtimeType.v ELSE "P"),
                     "p").fields

\* A call of executeFields on these fields ended with an exception: a field
\* threw out of executeField.
Threw(fields) == \E i \in DOMAIN fields : fld[fields[i]].st = "threw"

\* Some field of the group has a promise that is still pending.
PendingIn(fields) ==
    \E i \in DOMAIN fields : fld[fields[i]].st \in {"resolving", "completing"}

\* executeFields was called on these fields: when it returned, every field was
\* started, in collection order; when it threw, those up to the one that threw.
StartedInOrder(fields) ==
    IF Threw(fields)
    THEN /\ IsPrefix(InvokedOf(fields), fields)
         /\ fld[fields[Len(InvokedOf(fields))]].st = "threw"
    ELSE InvokedOf(fields) = fields

-----------------------------------------------------------------------------
(* C31 *)

\* The position of field n can raise an error of its own: its resolver throws,
\* rejects or returns an Error instance or a value its scalar cannot serialize,
\* it is NonNull and gets null, or (for p) its runtime type or isTypeOf fails.
FieldFails(n) ==
    \/ args.resolve[n] \in {"throw", "promiseReject", "error", "toNull", "toUndefined"}
    \/ args.nonNull[n] /\ args.resolve[n] \in {"null", "promiseNull", "undefined"}
    \/ n = "p" /\ (args.abstract \/ args.isTypeOf["P"] \in {"false", "promiseFalse"})

\* The error carries the linearized path of a field or list element of the
\* document that can fail, and the nodes of that field.
LocatedAtFailure(e) ==
    /\ e.located
    /\ \/ /\ Len(e.path) = 1
          /\ e.path[1] \in Range(RootFields) \cup {"d"}
          /\ FieldFails(e.path[1])
          /\ e.nodes = e.path[1]
       \/ /\ Len(e.path) = 2
          /\ e.path[1] = "p"
          /\ e.path[2] \in {"a", "b"}
          /\ FieldFails(e.path[2])
          /\ e.nodes = e.path[2]
       \/ /\ Len(e.path) = 2
          /\ e.path[1] = "l"
          /\ \E j \in DOMAIN args.items : e.path[2] = IndexKey(j - 1) /\ ElementFails(j)
          /\ e.nodes = "l"

\* The errors of what the caller holds: of the response execute returned or
\* resolved with, of the list it shares with the execution, and of the patches
\* the consumer received.
DeliveredErrors ==
    (IF Delivered /\ "errors" \in DOMAIN InitialResult
     THEN Range(InitialResult.errors) \cup Range(errors) ELSE {})
      \cup UNION {Range(consumer.received[i].result.value.errors) :
                    i \in {j \in EmittedPatches :
                             "errors" \in DOMAIN consumer.received[j].result.value}}

\* The claim as the spec states it: every error of every delivered payload.
C31_Original == \A e \in DeliveredErrors : LocatedAtFailure(e)

\* C31, amended: every error in the errors list of a delivered payload of an
\* execution that reached its root selection has the linearized path of the
\* field or list element that failed and the nodes of that field, and keeps
\* them while it bubbles through NonNull ancestors.  The errors raised before
\* any field is executed (request errors, no root type for the operation)
\* carry no path.
C31_ErrorsLocated ==
    /\ (~ContextCannotBeBuilt(args) /\ ~NoRootType) =>
           \A e \in DeliveredErrors : LocatedAtFailure(e)
    /\ (Delivered /\ (ContextCannotBeBuilt(args) \/ NoRootType)) =>
           \A e \in Range(InitialResult.errors) : ~e.located /\ e.path = <<>>

\* b failed below `p: P!` and took the data with it: the one error of the
\* response is still located at p.b.
C31_Witness ==
    /\ args.nonNull["p"]
    /\ args.nonNull["b"]
    /\ HasData
    /\ Data.t = "null"
    /\ Len(InitialResult.errors) = 1
    /\ InitialResult.errors[1].path = << "p", "b" >>
    /\ InitialResult.errors[1].nodes = "b"

\* ---------------------------------------------------------------------------
\* C32  Every payload is emitted exactly once to an awaiting consumer

\* The payloads scheduled on the dispatcher so far, by identity.
Scheduled == 1..dispatcher.created

\* The number of results the consumer was given for the payload id.
Emissions(id) ==
    Cardinality({i \in DOMAIN consumer.received : consumer.received[i].of = id})

\* The payload id was the terminal signal of the async iterator: it won a
\* race with done: true.
TerminalSignal(id) ==
    \E k \in DOMAIN consumer.spliced :
        consumer.spliced[k].won = id /\ consumer.spliced[k].done

\* The consumer awaited every next() before calling it again.
Awaiting == ~consumer.overlapped

\* C32: for a consumer that awaits each next() before calling it again, no
\* payload is emitted twice, and when the sequence reports done every payload
\* scheduled by addFields, addValue or addAsyncIteratorValue was emitted
\* exactly once (the terminal signal of the iterator carries no patch: it is
\* emitted at most once).
C32_ExactlyOnce ==
    Awaiting =>
        /\ \A id \in Scheduled : Emissions(id) <= 1
        /\ SawDone =>
               \A id \in Scheduled :
                   Emissions(id) = 1 \/ (TerminalSignal(id) /\ Emissions(id) = 0)

C32_Witness ==
    /\ Awaiting /\ SawDone
    /\ dispatcher.created = MaxItems + 1
    /\ \A id \in Scheduled : Emissions(id) = 1

-----------------------------------------------------------------------------
(* C33 *)

\* splice took out of the queue an entry other than the promise that won.
RemovedAnother(e) == e.removed # 0 /\ e.removed # e.won

\* C33: however many next() calls are in flight, every scheduled payload is
\* answered by at most one call, by exactly one once the sequence reported
\* done (the terminal signal of the iterator apart), and no splice of _race
\* removes a queue entry other than the promise its race settled on.
C33_ConcurrentNext ==
    /\ \A id \in Scheduled : Emissions(id) <= 1
    /\ \A k \in DOMAIN consumer.spliced : ~RemovedAnother(consumer.spliced[k])
    /\ SawDone =>
           \A id \in Scheduled :
               Emissions(id) = 1 \/ (TerminalSignal(id) /\ Emissions(id) = 0)

-----------------------------------------------------------------------------
(* C34 *)

\* The errors list of the response the caller holds, read now: buildResponse
\* put the array exeContext.errors itself into the response.
ErrorsHeld ==
    IF Delivered /\ "errors" \in DOMAIN InitialResult THEN errors ELSE <<>>

\* The data of the response the caller holds, read now.
DataHeld == IF HasData THEN Data ELSE NoValue

\* The patches the consumer was given, as they were when they were emitted.
PatchesHeld == [i \in EmittedPatches |-> consumer.received[i].result.value]

\* The step leaves what the caller was given as it was.
ResultsFrozen ==
    Delivered =>
        /\ ErrorsHeld' = ErrorsHeld
        /\ DataHeld' = DataHeld
        /\ \A i \in EmittedPatches : PatchesHeld'[i] = PatchesHeld[i]

\* C34: once execute has returned or resolved a response, and once a patch was
\* emitted, no resolver, list element or iterator pull that settles afterwards
\* changes the errors list or the data of that response or patch.
C34_ResultsFrozen == [][ResultsFrozen]_vars

-----------------------------------------------------------------------------
(* C35 *)

\* The consumer was given the payload that says nothing follows.
LastEmitted ==
    \E i \in DOMAIN consumer.received :
        /\ ~consumer.received[i].result.done
        /\ ~consumer.received[i].result.value.hasNext

\* execute returned, or its promise resolved with, a plain response.
PlainResponse == Delivered /\ ~DeliveredIterable

\* The step pushes no promise onto the dispatcher's queue.
NothingScheduled == dispatcher'.created = dispatcher.created

\* C35: after the payload with hasNext: false was emitted, and after execute
\* returned or resolved a plain response, no payload is ever added to the
\* dispatcher's queue.
C35_NothingAfterEnd == [][(LastEmitted \/ PlainResponse) => NothingScheduled]_vars

-----------------------------------------------------------------------------
(* C36 *)

\* The errors of the patch the consumer was given as its i-th result.
PatchErrors(i) ==
    IF "errors" \in DOMAIN consumer.received[i].result.value
    THEN Range(consumer.received[i].result.value.errors)
    ELSE {}

\* Every error that was recorded in some errors list: the main list, the list
\* of a payload in the queue or about to be pushed, the list of an emitted
\* patch.
Recorded ==
    Range(errors) \cup Range(subPatchErrors)
        \cup UNION {Range(dispatcher.subsequentPayloads[k].errors) :
                       k \in DOMAIN dispatcher.subsequentPayloads}
        \cup UNION {PatchErrors(i) : i \in EmittedPatches}

\* The number of delivered payloads whose errors list holds the error e.
DeliveredIn(e) ==
    (IF e \in Range(ErrorsHeld) THEN 1 ELSE 0)
        + Cardinality({i \in EmittedPatches : e \in PatchErrors(i)})

\* C36: no field error is silently lost: when the call is over, every error
\* that handleFieldError recorded for a nullable position, in the main
\* selection, in a deferred fragment (root-level ones included) or in a
\* streamed element, is in the errors list of exactly one delivered payload.
C36_NoErrorLost == RunOver => \A e \in Recorded : DeliveredIn(e) = 1

-----------------------------------------------------------------------------
(* C37 *)

\* A root field of the mutation that executeFieldsSerially has started is
\* still pending, or root fields are still waiting for their turn.
SerialPending ==
    \/ PendingIn(RootFields)
    \/ serial.st = "waiting"

\* C37: in a mutation with a deferred root-level fragment, the resolver of a
\* root field inside the deferred fragment is not invoked while a serially
\* executed root field of the mutation is pending.
C37_DeferredAfterSerial ==
    (IsMutation /\ args.defer /\ SerialPending) => "d" \notin Range(invoked)

-----------------------------------------------------------------------------
(* C38 *)

\* The k-th root field of the selection failed under NonNull: executeField
\* threw, or the promise it returned rejected.
RootFieldFailed(k) == fld[RootFields[k]].st \in {"threw", "rejected"}

\* The response is { data: null, errors } and its last error is the one of the
\* root field n (at n or below it).
NullWithErrorOf(n) ==
    /\ PlainResponse
    /\ DOMAIN InitialResult = {"errors", "data"}
    /\ InitialResult.data.t = "null"
    /\ LET e == InitialResult.errors[Len(InitialResult.errors)] IN
       e.located /\ e.path[1] = n

\* C38: in a mutation, when the root field k fails under NonNull, by a throw
\* or by a rejected promise, the resolvers of the root fields after it are
\* never invoked, and the response is { data: null, errors } with the error of
\* field k.
C38_SerialFailureStops ==
    IsMutation =>
        \A k \in DOMAIN RootFields :
            RootFieldFailed(k) =>
                /\ \A j \in DOMAIN RootFields :
                       j > k => RootFields[j] \notin Range(invoked)
                /\ NullWithErrorOf(RootFields[k])

C38_Witness ==
    /\ IsMutation
    /\ fld[RootFields[1]].st = "rejected"
    /\ RootFields[2] \notin Range(invoked)
    /\ NullWithErrorOf(RootFields[1])

-----------------------------------------------------------------------------
(* C39 *)

\* The object types of the schema and the field names a document may use.
ParentTypes == {"Query", "Mutation", "P", "Q", "R"}
FieldNames == Nodes \cup {"u", "__schema", "__type", "__typename"}

\* The root type of the operation that is executed.
RootTypeName == IF IsMutation THEN "Mutation" ELSE "Query"

\* The type the object under p was completed as.
SubTypeName == IF args.abstract THEN typing.runtimeType.v ELSE "P"

\* The object holds a key for every field node of the group fields that
\* parentType defines, and no other key.
KeysOfDefined(obj, parentType, fields) ==
    \A n \in Range(fields) :
        Has(obj, n) <=> getFieldDef(parentType, n) # Undefined

\* A field node without a definition is passed over: no resolver is invoked
\* for it and no error is recorded at it.
PassedOver(n) ==
    /\ n \notin Range(invoked)
    /\ \A e \in Range(errors) : ~(e.located /\ e.path = << n >>)

\* The resolver of the root field n answered null or undefined, returned or
\* promised.
AnsweredNothing(n) == args.resolve[n] \in {"null", "undefined", "promiseNull"}

\* What getFieldDef finds: the introspection fields by their special cases,
\* every other name among the fields the parent type declares.
FieldDefLookup ==
    \A T \in ParentTypes :
        /\ getFieldDef(T, "__typename") = TypeNameMetaFieldDef
        /\ getFieldDef(T, "__schema") # Undefined <=> T = "Query"
        /\ getFieldDef(T, "__type") # Undefined <=> T = "Query"
        /\ \A f \in FieldNames \ {"__schema", "__type", "__typename"} :
               getFieldDef(T, f) # Undefined <=> f \in getFields(T)

\* C39: every object of the data holds exactly the response keys of the field
\* nodes that have a definition on the parent type: a node without one is
\* omitted, with no error and no resolver call, while a field whose resolver
\* answers undefined or null under a nullable type is present with null;
\* __typename is defined on every parent type, __schema and __type on the
\* query root only.
C39_DefinedKeys ==
    /\ FieldDefLookup
    /\ (HasData /\ Data.t = "obj") =>
         /\ KeysOfDefined(Data, RootTypeName, args.selection)
         /\ \A n \in Range(args.selection) :
              getFieldDef(RootTypeName, n) = Undefined => PassedOver(n)
         /\ \A n \in Range(RootFields) :
              (AnsweredNothing(n) /\ ~args.nonNull[n]) => Lookup(Data, n).t = "null"
         /\ (Has(Data, "p") /\ Lookup(Data, "p").t = "obj") =>
              KeysOfDefined(Lookup(Data, "p"), SubTypeName, SubSelection)

C39_Witness ==
    /\ "u" \in Range(args.selection)
    /\ IsMutation
    /\ args.resolve["x"] = "undefined"
    /\ HasData /\ Data.t = "obj"
    /\ Keys(Data) = << "p", "x" >>
    /\ Lookup(Data, "x").t = "null"
    /\ invoked = << "p", "a", "b", "x" >>

-----------------------------------------------------------------------------
(* C40 *)

\* JavaScript numbers.  An integer is written n = hi * 2^16 + lo with
\* 0 <= lo < 2^16: the numbers beyond the bounds of Int are numbers like any
\* other for the scalar, and they lie outside the integers TLC computes with.
Integer(hi, lo) == [t |-> "number", is |-> "integer", hi |-> hi, lo |-> lo]
Fraction == [t |-> "number", is |-> "fraction"]
NaN == [t |-> "number", is |-> "NaN"]

\* 2147483647 and -2147483648
MAX_INT == Integer(32767, 65535)
MIN_INT == Integer(-32768, 0)

\* a > b and a < b on numbers: false when an operand is NaN; the scalar only
\* compares integers.
GreaterThan(a, b) ==
    /\ a.is = "integer" /\ b.is = "integer"
    /\ a.hi > b.hi \/ (a.hi = b.hi /\ a.lo > b.lo)

LessThan(a, b) == GreaterThan(b, a)

\* Other JavaScript values: strings (of a number in decimal, or not), booleans,
\* null, undefined and arrays of numbers.
Str(num) == [t |-> "string", num |-> num]
Bool(b) == [t |-> "boolean", v |-> b]
Arr(items) == [t |-> "array", items |-> items]
JsNull == [t |-> "null"]
JsUndefined == [t |-> "undefined"]
EmptyString == [t |-> "string", num |-> Integer(0, 0), empty |-> TRUE]

\* Number(value)
Number(value) ==
    CASE value.t = "number" -> value
      [] value.t = "string" -> value.num
      [] value.t = "boolean" -> Integer(0, IF value.v THEN 1 ELSE 0)
      [] value.t = "null" -> Integer(0, 0)
      [] value.t = "array" ->
           IF Len(value.items) = 0 THEN Integer(0, 0)
           ELSE IF Len(value.items) = 1 THEN value.items[1]
           ELSE NaN
      [] OTHER -> NaN

\* isInteger(value): a number without a fractional part.
isInteger(value) == value.t = "number" /\ value.is = "integer"

TypeError(message) == [name |-> "TypeError", message |-> message]

\* A faulty serializeInt without the test of the bounds: C40 does not hold of
\* it.
serializeIntUnbounded(value) ==
    IF value.t = "array"
    THEN RThrow(TypeError("Int cannot represent an array value"))
    ELSE IF value = EmptyString \/ ~isInteger(Number(value))
    THEN RThrow(TypeError("Int cannot represent non-integer value"))
    ELSE RVal(Number(value))

serializeInt(value) ==
    IF value.t = "array"
    THEN RThrow(TypeError("Int cannot represent an array value"))
    ELSE LET num == Number(value) IN
         IF value = EmptyString \/ ~isInteger(num)
         THEN RThrow(TypeError("Int cannot represent non-integer value"))
         ELSE IF GreaterThan(num, MAX_INT) \/ LessThan(num, MIN_INT)
         THEN RThrow(TypeError("Int cannot represent non 32-bit signed integer value"))
         ELSE RVal(num)

coerceInt(value) ==
    IF ~isInteger(value)
    THEN RThrow(TypeError("Int cannot represent non-integer value"))
    ELSE IF GreaterThan(value, MAX_INT) \/ LessThan(value, MIN_INT)
    THEN RThrow(TypeError("Int cannot represent non 32-bit signed integer value"))
    ELSE RVal(value)

\* A literal of the document: its kind and its text.
Literal(kind, value) == [t |-> "ast", kind |-> kind, value |-> value]

\* parseInt(string, 10) on the text of an integer literal.
parseInt(string) == string.num

\* GraphQLInt.parseLiteral
parseLiteral(ast) ==
    IF ast.kind = "IntValue"
    THEN LET num == parseInt(ast.value) IN
         IF ~GreaterThan(num, MAX_INT) /\ ~LessThan(num, MIN_INT)
         THEN RVal(num)
         ELSE RUndef
    ELSE RUndef

\* The integers the scalar is tried on: around zero, around both bounds, and
\* far beyond them.
SomeIntegers ==
    { Integer(hi, lo) : hi \in {-40000, -32769, -32768, -32767, -1, 0, 1,
                                32766, 32767, 32768, 40000},
                        lo \in {0, 1, 65534, 65535} }

SomeValues ==
    SomeIntegers \cup {Fraction, NaN, EmptyString, Str(NaN), JsNull, JsUndefined,
                       Bool(TRUE), Bool(FALSE), Arr(<<>>), Arr(<< MAX_INT >>)}
        \cup {Str(n) : n \in SomeIntegers}

SomeLiterals ==
    { Literal("IntValue", Str(n)) : n \in SomeIntegers }
        \cup { Literal("FloatValue", Str(Fraction)), Literal("StringValue", Str(NaN)) }

\* The scalar is handed a value or a literal, and one of its three functions
\* is applied to it.
InitInt == InitWith(SomeValues \cup SomeLiterals, "scalar")

SerializeInt ==
    /\ entry = "none" /\ args.t # "ast"
    /\ entry' = "serializeInt"
    /\ ret' = [k |-> "scalar", value |-> serializeInt(args)]
    /\ UNCHANGED << args, syncResult, prom, opResult, errors, invoked, fld, agg, serial,
                    iter, dispatcher, consumer, subPatchErrors, typing, run >>

CoerceInt ==
    /\ entry = "none" /\ args.t # "ast"
    /\ entry' = "coerceInt"
    /\ ret' = [k |-> "scalar", value |-> coerceInt(args)]
    /\ UNCHANGED << args, syncResult, prom, opResult, errors, invoked, fld, agg, serial,
                    iter, dispatcher, consumer, subPatchErrors, typing, run >>

ParseLiteral ==
    /\ entry = "none" /\ args.t = "ast"
    /\ entry' = "parseLiteral"
    /\ ret' = [k |-> "scalar", value |-> parseLiteral(args)]
    /\ UNCHANGED << args, syncResult, prom, opResult, errors, invoked, fld, agg, serial,
                    iter, dispatcher, consumer, subPatchErrors, typing, run >>

NextInt ==
    \/ SerializeInt
    \/ CoerceInt
    \/ ParseLiteral

SpecInt == InitInt /\ [][NextInt]_vars

\* -2147483648 <= n <= 2147483647, said of the two halves of n: the upper half
\* is a signed 16-bit number.
InInt32(n) ==
    /\ n.t = "number" /\ n.is = "integer"
    /\ n.hi \in -32768..32767
    /\ n.lo \in 0..65535

\* The function returned an integer of the 32-bit signed range or threw a
\* TypeError.
InRangeOrTypeError(r) ==
    \/ r.k = "val" /\ InInt32(r.v)
    \/ r.k = "throw" /\ r.e.name = "TypeError"

\* C40: serializeInt and coerceInt never return a value outside the 32-bit
\* signed range: they return an integer n with -2147483648 <= n <= 2147483647
\* or throw a TypeError, and they accept both bounds; parseLiteral of Int
\* returns undefined for an integer literal outside that range.
C40_Int32 ==
    /\ entry \in {"serializeInt", "coerceInt"} =>
         /\ InRangeOrTypeError(ret.value)
         /\ args \in {MAX_INT, MIN_INT} => ret.value = RVal(args)
    /\ (entry = "parseLiteral" /\ args.kind = "IntValue" /\ ~InInt32(args.value.num)) =>
         ret.value = RUndef

C40_Witness ==
    /\ entry = "coerceInt"
    /\ args = MIN_INT
    /\ ret.value = RVal(MIN_INT)

====
